---- MODULE Spec2Model ----
(***************************************************************************)
(* Persona-driven document intelligence (tushar591/Adobe-Hackathon).       *)
(*                                                                         *)
(* Text is modelled character by character: a Python str is a sequence of  *)
(* one-character strings, so that `in`, lower(), split(), strip() and the  *)
(* regular expressions of the source are computed, not assumed.  Scores    *)
(* are binary64 floats, computed and rounded as the source computes them.  *)
(***************************************************************************)
EXTENDS Integers, Sequences, FiniteSets, TLC

(***************************************************************************)
(* Python str primitives                                                   *)
(***************************************************************************)

\* The alphabet of the model is Latin-1, the code points 0 to 255.
\* Its whitespace characters (str.split, str.strip, str.isspace, \s): tab,
\* line feed, vertical tab, form feed, carriage return, the separators
\* 0x1c to 0x1f, space, next line (0x85) and no-break space (0xa0).
Whitespace ==
    {"\t", "\n", "", "\f", "\r", "", "", "", "", " ",
     "", " "}

\* str.isspace() of one character.
IsSpace(c) == c \in Whitespace

\* The characters c with c.lower() # c, and below them their lower() images.
UpperChars ==
    <<"A","B","C","D","E","F","G","H","I","J","K","L","M",
      "N","O","P","Q","R","S","T","U","V","W","X","Y","Z",
      "À","Á","Â","Ã","Ä","Å","Æ","Ç","È","É","Ê","Ë","Ì",
      "Í","Î","Ï","Ð","Ñ","Ò","Ó","Ô","Õ","Ö","Ø","Ù","Ú",
      "Û","Ü","Ý","Þ">>

LowerChars ==
    <<"a","b","c","d","e","f","g","h","i","j","k","l","m",
      "n","o","p","q","r","s","t","u","v","w","x","y","z",
      "à","á","â","ã","ä","å","æ","ç","è","é","ê","ë","ì",
      "í","î","ï","ð","ñ","ò","ó","ô","õ","ö","ø","ù","ú",
      "û","ü","ý","þ">>

\* The characters of the regular expression class [A-Z].
AsciiCapitals == {UpperChars[i] : i \in 1..26}

\* The characters c with c.isupper().
UpperSet == {UpperChars[i] : i \in 1..Len(UpperChars)}

\* The characters c with c.islower(): the images above and the lowercase
\* characters that have no capital in the alphabet.
LowerSet ==
    {LowerChars[i] : i \in 1..Len(LowerChars)} \cup {"ª", "µ", "º", "ß", "ÿ"}

\* The characters of the regular expression class [0-9].
DigitSet == {"0","1","2","3","4","5","6","7","8","9"}

\* str.lower() of one character.
LowerChar(c) ==
    IF c \in UpperSet
    THEN LowerChars[CHOOSE i \in 1..Len(UpperChars) : UpperChars[i] = c]
    ELSE c

\* str.lower()
Lower(s) == [i \in 1..Len(s) |-> LowerChar(s[i])]

\* Python `k in s` for two strings.
InStr(k, s) ==
    \E i \in 0..(Len(s) - Len(k)) : \A j \in 1..Len(k) : s[i + j] = k[j]

\* Python s.startswith(k, p - 1): k occurs in s at (1-based) position p.
MatchAt(k, s, p) ==
    /\ p + Len(k) - 1 <= Len(s)
    /\ \A j \in 1..Len(k) : s[p + j - 1] = k[j]

\* The positions at which a whitespace-separated token of s starts.
WordStarts(s) ==
    {i \in 1..Len(s) : ~IsSpace(s[i]) /\ (i = 1 \/ IsSpace(s[i - 1]))}

\* len(s.split())
WordCount(s) == Cardinality(WordStarts(s))

\* The k-th smallest element of a finite set of integers (k from 1).
Nth(S, k) == CHOOSE x \in S : Cardinality({y \in S : y < x}) = k - 1

\* The positions at which a whitespace-separated token of s ends.
WordEnds(s) ==
    {i \in 1..Len(s) : ~IsSpace(s[i]) /\ (i = Len(s) \/ IsSpace(s[i + 1]))}

RECURSIVE Ascending(_, _, _)
\* The elements of the set S of integers that lie in lo..hi, in ascending order.
Ascending(S, lo, hi) ==
    IF lo > hi THEN <<>>
    ELSE IF lo = hi THEN (IF lo \in S THEN <<lo>> ELSE <<>>)
    ELSE LET mid == (lo + hi) \div 2
         IN  Ascending(S, lo, mid) \o Ascending(S, mid + 1, hi)

\* s.split(): the whitespace-separated tokens of s, in order.
Split(s) ==
    LET starts == Ascending(WordStarts(s), 1, Len(s))
        ends == Ascending(WordEnds(s), 1, Len(s))
    IN  [k \in 1..Len(starts) |-> SubSeq(s, starts[k], ends[k])]

\* s.strip()
Strip(s) ==
    IF \A i \in 1..Len(s) : IsSpace(s[i]) THEN <<>>
    ELSE SubSeq(s,
                CHOOSE i \in 1..Len(s) :
                    ~IsSpace(s[i]) /\ \A j \in 1..(i - 1) : IsSpace(s[j]),
                CHOOSE i \in 1..Len(s) :
                    ~IsSpace(s[i]) /\ \A j \in (i + 1)..Len(s) : IsSpace(s[j]))

RECURSIVE JoinRange(_, _, _, _)
\* sep.join(parts[lo - 1:hi]), by halves.
JoinRange(sep, parts, lo, hi) ==
    IF lo > hi THEN <<>>
    ELSE IF lo = hi THEN parts[lo]
    ELSE LET mid == (lo + hi) \div 2
         IN  JoinRange(sep, parts, lo, mid) \o sep
             \o JoinRange(sep, parts, mid + 1, hi)

\* sep.join(parts)
Join(sep, parts) == JoinRange(sep, parts, 1, Len(parts))

\* The set of elements of a sequence.
Range(f) == {f[i] : i \in 1..Len(f)}

\* seq[:n] for n >= 0.
Take(seq, n) == SubSeq(seq, 1, IF n < Len(seq) THEN n ELSE Len(seq))

(***************************************************************************)
(* persona_analyzer.py: the requirement model builder                      *)
(***************************************************************************)

\* The domains in the insertion order of the dict _build_domain_keywords returns.
DomainOrder ==
    <<"academic_research", "business_analysis", "education", "technical">>

\* PersonaJobAnalyzer._build_domain_keywords
domain_keywords ==
    [academic_research |-> <<
        <<"m","e","t","h","o","d","o","l","o","g","y">>,
        <<"l","i","t","e","r","a","t","u","r","e">>,
        <<"r","e","v","i","e","w">>,
        <<"r","e","s","e","a","r","c","h">>,
        <<"s","t","u","d","y">>,
        <<"a","n","a","l","y","s","i","s">>,
        <<"f","i","n","d","i","n","g","s">>,
        <<"r","e","s","u","l","t","s">>,
        <<"d","i","s","c","u","s","s","i","o","n">>,
        <<"h","y","p","o","t","h","e","s","i","s">>,
        <<"e","x","p","e","r","i","m","e","n","t">>,
        <<"d","a","t","a">>,
        <<"s","t","a","t","i","s","t","i","c","a","l">>,
        <<"e","m","p","i","r","i","c","a","l">>,
        <<"t","h","e","o","r","e","t","i","c","a","l">>,
        <<"f","r","a","m","e","w","o","r","k">> >>,
     business_analysis |-> <<
        <<"r","e","v","e","n","u","e">>,
        <<"p","r","o","f","i","t">>,
        <<"f","i","n","a","n","c","i","a","l">>,
        <<"m","a","r","k","e","t">>,
        <<"s","t","r","a","t","e","g","y">>,
        <<"c","o","m","p","e","t","i","t","i","v","e">>,
        <<"g","r","o","w","t","h">>,
        <<"i","n","v","e","s","t","m","e","n","t">>,
        <<"r","o","i">>,
        <<"p","e","r","f","o","r","m","a","n","c","e">>,
        <<"m","e","t","r","i","c","s">>,
        <<"k","p","i">>,
        <<"t","r","e","n","d","s">>,
        <<"f","o","r","e","c","a","s","t">>,
        <<"a","n","a","l","y","s","i","s">>,
        <<"b","u","s","i","n","e","s","s">>,
        <<"c","o","m","m","e","r","c","i","a","l">> >>,
     education |-> <<
        <<"c","o","n","c","e","p","t">>,
        <<"t","h","e","o","r","y">>,
        <<"p","r","i","n","c","i","p","l","e">>,
        <<"e","x","p","l","a","n","a","t","i","o","n">>,
        <<"e","x","a","m","p","l","e">>,
        <<"p","r","a","c","t","i","c","e">>,
        <<"e","x","e","r","c","i","s","e">>,
        <<"p","r","o","b","l","e","m">>,
        <<"s","o","l","u","t","i","o","n">>,
        <<"d","e","f","i","n","i","t","i","o","n">>,
        <<"f","o","r","m","u","l","a">>,
        <<"e","q","u","a","t","i","o","n">>,
        <<"m","e","c","h","a","n","i","s","m">>,
        <<"p","r","o","c","e","s","s">>,
        <<"s","t","e","p","s">> >>,
     technical |-> <<
        <<"i","m","p","l","e","m","e","n","t","a","t","i","o","n">>,
        <<"a","r","c","h","i","t","e","c","t","u","r","e">>,
        <<"d","e","s","i","g","n">>,
        <<"a","l","g","o","r","i","t","h","m">>,
        <<"p","e","r","f","o","r","m","a","n","c","e">>,
        <<"o","p","t","i","m","i","z","a","t","i","o","n">>,
        <<"s","y","s","t","e","m">>,
        <<"t","e","c","h","n","i","c","a","l">>,
        <<"s","p","e","c","i","f","i","c","a","t","i","o","n">>,
        <<"r","e","q","u","i","r","e","m","e","n","t","s">>,
        <<"d","o","c","u","m","e","n","t","a","t","i","o","n">> >> ]
(***************************************************************************)
(* State                                                                   *)
(***************************************************************************)

VARIABLES
    score_args,           \* the arguments of one _calculate_comprehensive_score call
    score_result,         \* <<>> before the call returns, <<score>> after
    installed,            \* which optional packages and data are installed
    relevance_scorer,     \* the RelevanceScorer object
    pc,                   \* the position of the caller of the scorer
    run,                  \* how many times prepare_scoring was called on it
    run_documents,        \* documents of the current run
    run_requirements,     \* requirements of the current run
    fit_result,           \* what vector-space construction did in the current run
    run_scored_sections,  \* scored_sections of the current run
    run_top_sections,     \* <<top_n, top_sections>> of the current run
    sub_pc,               \* the position of the caller of the sub-section analyzer
    sub_args,             \* the content and requirements handed to it
    sub_subsections,      \* what _extract_subsections returned
    sub_scored,           \* what _score_subsections returned
    collections,          \* the collection folders main() iterates over, in its order
    next_collection,      \* the position of the loop of main()
    main_status,          \* "running", "returned", or "crashed" by an uncaught exception
    handled,              \* what became of each collection the loop has reached
    header_line,          \* the line handed to _is_section_header
    header_result,        \* <<>> before it returns, <<answer>> after
    doc_pc,               \* the position of the caller of the document processor
    doc_pdfs,             \* the files handed to process_documents, in order
    doc_documents,        \* what process_documents returned
    req_args,             \* the persona text, the job text and the installation of step 2
    req_built,            \* <<>> before step 2 is over, <<what it built>> after
    refine_args,          \* the text and the tokenizer of a _refine_text call
    refine_result,        \* what _refine_text returned, and what it returned for that
    analysis_args,        \* the arguments of an analyze_subsections call
    analysis_result       \* <<>> before it returns, <<sub-sections>> after

scoreVars == <<score_args, score_result>>

scorerVars ==
    <<installed, relevance_scorer, pc, run, run_documents, run_requirements,
      fit_result, run_scored_sections, run_top_sections>>

subVars == <<sub_pc, sub_args, sub_subsections, sub_scored>>

mainVars == <<collections, next_collection, main_status, handled>>

headerVars == <<header_line, header_result>>

docVars == <<doc_pc, doc_pdfs, doc_documents>>

reqVars == <<req_args, req_built>>

refineVars == <<refine_args, refine_result>>

analysisVars == <<analysis_args, analysis_result>>

vars ==
    <<scoreVars, scorerVars, subVars, mainVars, headerVars, docVars, reqVars,
      refineVars, analysisVars>>

\* The variables of the objects added for the checks of single operations.
laterVars == <<headerVars, docVars, reqVars, refineVars, analysisVars>>

\* What a step on one object leaves alone: the variables of the others.
outsideScore == <<scorerVars, subVars, mainVars, laterVars>>

outsideScorer == <<scoreVars, subVars, mainVars, laterVars>>

outsideSub == <<scoreVars, pc, run, relevance_scorer, run_documents, run_requirements,
                fit_result, run_scored_sections, run_top_sections, mainVars, laterVars>>

outsideMain == <<scoreVars, pc, run, run_documents, run_requirements, fit_result,
                 run_scored_sections, run_top_sections, subVars, laterVars>>

earlierVars == <<scoreVars, scorerVars, subVars, mainVars>>

outsideHeader == <<earlierVars, docVars, reqVars, refineVars, analysisVars>>

outsideDoc == <<earlierVars, headerVars, reqVars, refineVars, analysisVars>>

outsideReq == <<earlierVars, headerVars, docVars, refineVars, analysisVars>>

outsideRefine == <<earlierVars, headerVars, docVars, reqVars, analysisVars>>

outsideAnalysis == <<earlierVars, headerVars, docVars, reqVars, refineVars>>

\* No call of _calculate_comprehensive_score is being observed.
ScoreIdle == score_args = <<>> /\ score_result = <<>>

\* No caller of the scorer is being observed.
NoScorerRun ==
    /\ pc = "idle"
    /\ run = 0
    /\ run_documents = <<>>
    /\ run_requirements = <<>>
    /\ fit_result = "none"
    /\ run_scored_sections = <<>>
    /\ run_top_sections = <<>>

\* No relevance_scorer object exists.
ScorerAbsent == relevance_scorer = <<>> /\ NoScorerRun

ScorerIdle == installed = <<>> /\ ScorerAbsent

\* No sub-section analyzer is being observed.
SubIdle ==
    /\ sub_pc = "idle"
    /\ sub_args = <<>>
    /\ sub_subsections = <<>>
    /\ sub_scored = <<>>

\* main() is not being observed.
MainIdle ==
    /\ collections = <<>>
    /\ next_collection = 0
    /\ main_status = "idle"
    /\ handled = <<>>

\* No call of _is_section_header is being observed.
HeaderIdle == header_line = <<>> /\ header_result = <<>>

\* No caller of the document processor is being observed.
DocIdle == doc_pc = "idle" /\ doc_pdfs = <<>> /\ doc_documents = <<>>

\* Step 2 of process is not being observed.
ReqIdle == req_args = <<>> /\ req_built = <<>>

\* No call of _refine_text is being observed.
RefineIdle == refine_args = <<>> /\ refine_result = <<>>

\* No call of analyze_subsections is being observed.
AnalysisIdle == analysis_args = <<>> /\ analysis_result = <<>>

\* None of the objects of the earlier specifications is being observed.
EarlierIdle == ScoreIdle /\ ScorerIdle /\ SubIdle /\ MainIdle

(***************************************************************************)
(* The optional collaborators.  An environment says which libraries and    *)
(* data sets the process found: spaCy and NLTK are imported by one try     *)
(* block in persona_analyzer.py, NLTK alone in subsection_analyzer.py,     *)
(* scikit-learn in relevance_scorer.py.                                    *)
(***************************************************************************)

Envs ==
    { [spacy |-> TRUE,  nltk |-> TRUE,  model |-> TRUE,  corpora |-> TRUE,
       punkt |-> TRUE,  sklearn |-> TRUE],
      [spacy |-> TRUE,  nltk |-> TRUE,  model |-> FALSE, corpora |-> FALSE,
       punkt |-> FALSE, sklearn |-> TRUE],
      [spacy |-> TRUE,  nltk |-> TRUE,  model |-> TRUE,  corpora |-> FALSE,
       punkt |-> TRUE,  sklearn |-> FALSE],
      [spacy |-> FALSE, nltk |-> TRUE,  model |-> FALSE, corpora |-> TRUE,
       punkt |-> TRUE,  sklearn |-> TRUE],
      [spacy |-> FALSE, nltk |-> FALSE, model |-> FALSE, corpora |-> FALSE,
       punkt |-> FALSE, sklearn |-> FALSE] }

\* persona_analyzer.py imports spacy, nltk, word_tokenize and stopwords in one
\* try block: one ImportError leaves all four None.
ImportsOk(env) == env.spacy /\ env.nltk

\* self.nlp after PersonaJobAnalyzer.__init__: spacy.load and stopwords.words share
\* one try block whose except clause resets self.nlp to None.
NlpLoaded(env) == ImportsOk(env) /\ env.model /\ env.corpora

\* The words of NLTK's English stop-word list that are longer than 3 characters
\* (shorter ones never pass the length test of analyze_job).
EnglishStopWords ==
    {
      <<"w","i","t","h">>, <<"t","h","i","s">>, <<"t","h","a","t">>,
      <<"f","r","o","m">>, <<"i","n","t","o">>, <<"a","b","o","u","t">>,
      <<"t","h","e","i","r">>, <<"t","h","e","r","e">>, <<"w","h","i","c","h">>,
      <<"w","h","i","l","e">>, <<"s","h","o","u","l","d">>, <<"h","a","v","e">>,
      <<"b","e","e","n">>, <<"b","e","i","n","g">>, <<"w","e","r","e">>,
      <<"w","i","l","l">>, <<"y","o","u","r">>, <<"w","h","a","t">>,
      <<"w","h","e","n">>, <<"w","h","e","r","e">>, <<"t","h","e","s","e">>,
      <<"t","h","o","s","e">>, <<"t","h","e","m">>, <<"t","h","e","n">>,
      <<"t","h","a","n">>, <<"t","h","e","y">>, <<"s","o","m","e">>,
      <<"s","u","c","h">>, <<"o","n","l","y">>, <<"o","v","e","r">>,
      <<"u","n","d","e","r">>, <<"a","f","t","e","r">>, <<"a","g","a","i","n">>,
      <<"o","n","c","e">>, <<"h","e","r","e">>, <<"m","o","r","e">>,
      <<"m","o","s","t">>, <<"o","t","h","e","r">>, <<"b","o","t","h">>,
      <<"e","a","c","h">>, <<"v","e","r","y">>, <<"j","u","s","t">>,
      <<"d","o","e","s">>, <<"d","o","i","n","g">>, <<"h","a","v","i","n","g">>,
      <<"d","u","r","i","n","g">>, <<"b","e","f","o","r","e">>, <<"a","b","o","v","e">>,
      <<"b","e","l","o","w">>, <<"b","e","t","w","e","e","n">>, <<"t","h","r","o","u","g","h">>,
      <<"f","u","r","t","h","e","r">>, <<"b","e","c","a","u","s","e">>, <<"u","n","t","i","l">>,
      <<"a","g","a","i","n","s","t">> }

\* self.stop_words after PersonaJobAnalyzer.__init__: the except clause empties
\* it when spacy.load or stopwords.words raises.
StopWords(env) == IF NlpLoaded(env) THEN EnglishStopWords ELSE {}

(***************************************************************************)
(* The persona and job texts the model runs the builder on.                *)
(***************************************************************************)

\* "PhD Researcher in Computational Biology"
PersonaPhD ==
    <<"P","h","D"," ","R","e","s","e","a","r","c","h","e","r"," ","i","n"," ","C","o","m","p","u","t","a","t","i","o","n","a","l"," ","B","i","o","l","o","g","y">>

\* "Research Data Scientist"
PersonaAcademic ==
    <<"R","e","s","e","a","r","c","h"," ","D","a","t","a"," ","S","c","i","e","n","t","i","s","t">>

\* "Investment Analyst for market strategy"
PersonaBusiness ==
    <<"I","n","v","e","s","t","m","e","n","t"," ","A","n","a","l","y","s","t"," ","f","o","r"," ","m","a","r","k","e","t"," ","s","t","r","a","t","e","g","y">>

\* "Teacher of theory and practice"
PersonaEducation ==
    <<"T","e","a","c","h","e","r"," ","o","f"," ","t","h","e","o","r","y"," ","a","n","d"," ","p","r","a","c","t","i","c","e">>

\* "System design engineer"
PersonaTechnical ==
    <<"S","y","s","t","e","m"," ","d","e","s","i","g","n"," ","e","n","g","i","n","e","e","r">>

\* ""
PersonaEmpty ==
    <<>>

\* "Prepare a literature review focusing on methodology and results"
JobLiteratureReview ==
    <<"P","r","e","p","a","r","e"," ","a"," ","l","i","t","e","r","a","t","u","r","e"," ","r","e","v","i","e","w"," ","f","o","c","u","s","i","n","g"," ","o","n"," ","m","e","t","h","o","d","o","l","o","g","y"," ","a","n","d"," ","r","e","s","u","l","t","s">>

\* "Analyze Adobe revenue trends"
JobRevenue ==
    <<"A","n","a","l","y","z","e"," ","A","d","o","b","e"," ","r","e","v","e","n","u","e"," ","t","r","e","n","d","s">>

\* ""
JobEmpty ==
    <<>>

PersonaTexts ==
    {PersonaPhD, PersonaAcademic, PersonaBusiness,
     PersonaEducation, PersonaTechnical, PersonaEmpty}

JobTexts == {JobLiteratureReview, JobRevenue, JobEmpty}

(***************************************************************************)
(* Collaborator results.  spaCy's noun chunks and entities and NLTK's      *)
(* tokens and tags are library outputs; the model fixes them per text.     *)
(***************************************************************************)

\* doc.noun_chunks of self.nlp(text), as chunk.text.
noun_chunks(text) ==
    IF text = PersonaPhD THEN
        << <<"P","h","D"," ","R","e","s","e","a","r","c","h","e","r">>,
           <<"C","o","m","p","u","t","a","t","i","o","n","a","l"," ","B","i","o","l","o","g","y">> >>
    ELSE IF text = PersonaAcademic THEN
        << <<"R","e","s","e","a","r","c","h"," ","D","a","t","a"," ","S","c","i","e","n","t","i","s","t">> >>
    ELSE IF text = PersonaBusiness THEN
        << <<"I","n","v","e","s","t","m","e","n","t"," ","A","n","a","l","y","s","t">>,
           <<"m","a","r","k","e","t"," ","s","t","r","a","t","e","g","y">> >>
    ELSE IF text = JobLiteratureReview THEN
        << <<"a"," ","l","i","t","e","r","a","t","u","r","e"," ","r","e","v","i","e","w">>,
           <<"m","e","t","h","o","d","o","l","o","g","y">>,
           <<"r","e","s","u","l","t","s">> >>
    ELSE IF text = JobRevenue THEN
        << <<"A","d","o","b","e"," ","r","e","v","e","n","u","e"," ","t","r","e","n","d","s">> >>
    ELSE <<>>

\* doc.ents of self.nlp(text), as <<ent.text, ent.label_>>.
named_entities(text) ==
    IF text = JobRevenue THEN
        << << <<"A","d","o","b","e">>, "ORG" >> >>
    ELSE <<>>

\* The characters word_tokenize splits off as tokens of their own.
Punctuation == {".", ",", "!", "?", ";", ":"}

\* nltk.tokenize.word_tokenize: whitespace-separated tokens, punctuation apart.
word_tokenize(s) ==
    LET IsBreak(i) == IsSpace(s[i])
        starts == {i \in 1..Len(s) :
                     /\ ~IsSpace(s[i])
                     /\ \/ i = 1
                        \/ IsSpace(s[i - 1])
                        \/ s[i] \in Punctuation
                        \/ s[i - 1] \in Punctuation}
        EndOf(i) == IF s[i] \in Punctuation THEN i
                    ELSE CHOOSE j \in i..Len(s) :
                           /\ \A m \in i..j : ~IsBreak(m) /\ s[m] \notin Punctuation
                           /\ \/ j = Len(s)
                              \/ IsBreak(j + 1)
                              \/ s[j + 1] \in Punctuation
    IN  [k \in 1..Cardinality(starts) |->
            LET i == Nth(starts, k) IN SubSeq(s, i, EndOf(i))]

\* The lower-case tokens nltk.pos_tag gives a tag other than VB* or NN*; every
\* other alphabetic token is tagged as a noun or a verb.
OtherTagWords ==
    {
      <<"a">>, <<"a","n">>, <<"t","h","e">>, <<"a","n","d">>,
      <<"o","r">>, <<"o","n">>, <<"o","f">>, <<"i","n">>,
      <<"f","o","r">>, <<"t","o">>, <<"w","i","t","h">>, <<"i">>,
      <<"a","m">>, <<"i","s">>, <<"t","h","i","s">>, <<"t","h","a","t">>,
      <<"f","r","o","m">> }

\* pos.startswith('VB') or pos.startswith('NN') for the tag nltk.pos_tag gives word.
TaggedVerbOrNoun(word) ==
    /\ word \notin OtherTagWords
    /\ \A i \in 1..Len(word) : word[i] \notin Punctuation /\ word[i] \notin DigitSet

(***************************************************************************)
(* PersonaJobAnalyzer.analyze_persona                                      *)
(***************************************************************************)

\* role_patterns: each regular expression is one group of alternatives.
role_patterns ==
    <<
    << <<"p","h","d"," ","r","e","s","e","a","r","c","h","e","r">>,
       <<"r","e","s","e","a","r","c","h","e","r">>,
       <<"s","t","u","d","e","n","t">>,
       <<"a","n","a","l","y","s","t">>,
       <<"m","a","n","a","g","e","r">>,
       <<"d","e","v","e","l","o","p","e","r">>,
       <<"e","n","g","i","n","e","e","r">>,
       <<"s","c","i","e","n","t","i","s","t">> >>,
    << <<"u","n","d","e","r","g","r","a","d","u","a","t","e">>,
       <<"g","r","a","d","u","a","t","e">>,
       <<"p","r","o","f","e","s","s","o","r">>,
       <<"t","e","a","c","h","e","r">>,
       <<"i","n","s","t","r","u","c","t","o","r">> >>,
    << <<"i","n","v","e","s","t","m","e","n","t"," ","a","n","a","l","y","s","t">>,
       <<"b","u","s","i","n","e","s","s"," ","a","n","a","l","y","s","t">>,
       <<"d","a","t","a"," ","a","n","a","l","y","s","t">> >>,
    << <<"s","a","l","e","s","p","e","r","s","o","n">>,
       <<"e","n","t","r","e","p","r","e","n","e","u","r">>,
       <<"j","o","u","r","n","a","l","i","s","t">> >> >>

\* re.search(r'(a1|a2|...)', s): the leftmost position where an alternative
\* matches, and there the first alternative that does; <<>> when none matches.
SearchAlternatives(alts, s) ==
    LET hits == {p \in 1..Len(s) : \E a \in 1..Len(alts) : MatchAt(alts[a], s, p)}
    IN  IF hits = {} THEN <<>>
        ELSE LET p == CHOOSE x \in hits : \A y \in hits : x <= y
                 a == CHOOSE x \in 1..Len(alts) :
                        /\ MatchAt(alts[x], s, p)
                        /\ \A y \in 1..(x - 1) : ~MatchAt(alts[y], s, p)
             IN  alts[a]

\* sum(1 for keyword in keywords if keyword in text_lower)
DomainScore(domain, text_lower) ==
    Cardinality({i \in 1..Len(domain_keywords[domain]) :
                    InStr(domain_keywords[domain][i], text_lower)})

\* A slip in the threshold: one keyword is enough to detect a domain.
DomainThreshold_One == 2 - 1

\* The "Threshold for domain detection" of analyze_persona.
DomainThreshold == 2

\* A slip in the slice keywords[:10]: only the first five keywords are kept.
FocusKeywordCount_Five == 10 \div 2

\* The number of a domain's keywords that become focus keywords (keywords[:10]).
FocusKeywordCount == 10

\* The loop over self.domain_keywords.items(): the first domain, in dict order,
\* whose score reaches the threshold; "" when none does.
DetectDomain(text_lower) ==
    LET hits == {d \in 1..Len(DomainOrder) :
                    DomainScore(DomainOrder[d], text_lower) >= DomainThreshold}
    IN  IF hits = {} THEN ""
        ELSE DomainOrder[CHOOSE d \in hits : \A e \in hits : d <= e]

\* [x for x in seq if keep(x)] for a sequence of strings and a set of kept indices.
RECURSIVE FilterSeq(_, _, _)
FilterSeq(seq, keep, i) ==
    IF i > Len(seq) THEN <<>>
    ELSE (IF i \in keep THEN <<seq[i]>> ELSE <<>>) \o FilterSeq(seq, keep, i + 1)

analyze_persona(persona_description, env) ==
    LET text_lower == Lower(persona_description)
        roles == {p \in 1..Len(role_patterns) :
                    SearchAlternatives(role_patterns[p], text_lower) # <<>>}
        role == IF roles = {} THEN <<>>
                ELSE SearchAlternatives(
                       role_patterns[CHOOSE p \in roles : \A q \in roles : p <= q],
                       text_lower)
        domain == DetectDomain(text_lower)
        focus_keywords ==
            IF domain = "" THEN <<>>
            ELSE Take(domain_keywords[domain], FocusKeywordCount)
        chunks == noun_chunks(persona_description)
        expertise_areas ==
            IF NlpLoaded(env)
            THEN Take([k \in 1..Len(FilterSeq(chunks,
                                {i \in 1..Len(chunks) : WordCount(chunks[i]) <= 3}, 1)) |->
                          Lower(FilterSeq(chunks,
                                {i \in 1..Len(chunks) : WordCount(chunks[i]) <= 3}, 1)[k])],
                      5)
            ELSE <<>>
        Has(term) == InStr(term, text_lower)
        experience_level ==
            IF Has(<<"p","h","d">>) \/ Has(<<"s","e","n","i","o","r">>)
               \/ Has(<<"l","e","a","d">>) \/ Has(<<"p","r","i","n","c","i","p","a","l">>)
            THEN "expert"
            ELSE IF Has(<<"u","n","d","e","r","g","r","a","d","u","a","t","e">>)
                    \/ Has(<<"j","u","n","i","o","r">>) \/ Has(<<"e","n","t","r","y">>)
            THEN "beginner"
            ELSE "intermediate"
    IN  [role |-> role,
         expertise_areas |-> expertise_areas,
         focus_keywords |-> focus_keywords,
         domain |-> domain,
         experience_level |-> experience_level]

(***************************************************************************)
(* PersonaJobAnalyzer.analyze_job                                          *)
(***************************************************************************)

\* The if/elif chain that detects the task type.
DetectTaskType(text_lower) ==
    LET Has(term) == InStr(term, text_lower)
    IN  IF Has(<<"r","e","v","i","e","w">>)
           \/ Has(<<"s","u","r","v","e","y">>)
           \/ Has(<<"o","v","e","r","v","i","e","w">>)
        THEN "literature_review"
        ELSE IF Has(<<"a","n","a","l","y","z","e">>)
                \/ Has(<<"a","n","a","l","y","s","i","s">>)
                \/ Has(<<"e","x","a","m","i","n","e">>)
        THEN "analysis"
        ELSE IF Has(<<"s","u","m","m","a","r","i","z","e">>)
                \/ Has(<<"s","u","m","m","a","r","y">>)
        THEN "summarization"
        ELSE IF Has(<<"p","r","e","p","a","r","e">>)
                \/ Has(<<"s","t","u","d","y">>)
                \/ Has(<<"l","e","a","r","n">>)
        THEN "preparation"
        ELSE IF Has(<<"i","d","e","n","t","i","f","y">>)
                \/ Has(<<"f","i","n","d">>)
                \/ Has(<<"e","x","t","r","a","c","t">>)
        THEN "information_extraction"
        ELSE ""

\* The entity labels analyze_job keeps.
KeptEntityLabels == {"ORG", "PRODUCT", "EVENT", "WORK_OF_ART"}

\* important_phrases: the noun chunks of at most 4 words, then the kept entities,
\* all lower-cased; empty without the NLP collaborator.
ImportantPhrases(job_description, env) ==
    IF ~NlpLoaded(env) THEN <<>>
    ELSE LET chunks == noun_chunks(job_description)
             ents == named_entities(job_description)
             short == FilterSeq(chunks,
                          {i \in 1..Len(chunks) : WordCount(chunks[i]) <= 4}, 1)
             kept == FilterSeq(ents,
                          {i \in 1..Len(ents) : ents[i][2] \in KeptEntityLabels}, 1)
         IN  [k \in 1..Len(short) |-> Lower(short[k])]
             \o [k \in 1..Len(kept) |-> Lower(kept[k][1])]

\* priority_words, as the set list(set(priority_words)) is built from.  With the
\* imports missing the list stays empty; with them, the tagged verbs and nouns,
\* or, when tokenizing or tagging raises (NLTK data missing), the except clause's
\* whitespace tokens; both filtered by length and stop words.
PriorityWords(text_lower, env) ==
    IF ~ImportsOk(env) THEN {}
    ELSE IF env.punkt
    THEN {word \in Range(word_tokenize(text_lower)) :
            /\ TaggedVerbOrNoun(word)
            /\ word \notin StopWords(env)
            /\ Len(word) > 3}
    ELSE {word \in Range(Split(text_lower)) :
            Len(word) > 3 /\ word \notin StopWords(env)}

\* The cap of list(set(priority_words))[:15].
MaxPriorityKeywords == 15

\* The cap of important_phrases[:10].
MaxKeyConcepts == 10

\* list(set(priority_words))[:15]: a set has no order of its own, so the slice
\* keeps any 15 of more than 15 words.
PriorityKeywordChoices(words) ==
    IF Cardinality(words) <= MaxPriorityKeywords THEN {words}
    ELSE {kept \in SUBSET words : Cardinality(kept) = MaxPriorityKeywords}

\* analyze_job: the job analyses the call may return.
analyze_job(job_description, env) ==
    LET text_lower == Lower(job_description)
    IN  { [task_type |-> DetectTaskType(text_lower),
           key_concepts |-> Take(ImportantPhrases(job_description, env), MaxKeyConcepts),
           priority_keywords |-> kept] :
          kept \in PriorityKeywordChoices(PriorityWords(text_lower, env)) }

(***************************************************************************)
(* PersonaJobAnalyzer.combine_requirements                                 *)
(***************************************************************************)

\* Keyword weights, in tenths.
WeightPersona == 10

WeightJobPriority == 20

WeightJobConcept == 15

\* keyword_weights[keyword] = weight for every keyword of a collection.
PutAll(weights, keywords, weight) ==
    [k \in (DOMAIN weights) \cup keywords |->
        IF k \in keywords THEN weight ELSE weights[k]]

\* The dict with no key.
EmptyDict == [k \in {} |-> 0]

\* combine_requirements that keeps the largest weight a keyword was given.
combine_requirements_MaxWeight(persona_analysis, job_analysis) ==
    LET all_keywords ==
            Range(persona_analysis.focus_keywords)
            \cup job_analysis.priority_keywords
            \cup Range(persona_analysis.expertise_areas)
            \cup Range(job_analysis.key_concepts)
        w1 == PutAll(EmptyDict, Range(persona_analysis.focus_keywords), WeightPersona)
        w2 == PutAll(w1, Range(job_analysis.key_concepts), WeightJobConcept)
        w3 == PutAll(w2, job_analysis.priority_keywords, WeightJobPriority)
    IN  [all_keywords |-> all_keywords,
         domain_focus |-> persona_analysis.domain,
         task_priority |-> job_analysis.task_type,
         expertise_level |-> persona_analysis.experience_level,
         weighted_keywords |-> w3]

combine_requirements(persona_analysis, job_analysis) ==
    LET all_keywords ==
            Range(persona_analysis.focus_keywords)
            \cup job_analysis.priority_keywords
            \cup Range(persona_analysis.expertise_areas)
            \cup Range(job_analysis.key_concepts)
        w1 == PutAll(EmptyDict, Range(persona_analysis.focus_keywords), WeightPersona)
        w2 == PutAll(w1, job_analysis.priority_keywords, WeightJobPriority)
        w3 == PutAll(w2, Range(job_analysis.key_concepts), WeightJobConcept)
    IN  [all_keywords |-> all_keywords,
         domain_focus |-> persona_analysis.domain,
         task_priority |-> job_analysis.task_type,
         expertise_level |-> persona_analysis.experience_level,
         weighted_keywords |-> w3]

\* The requirement models steps 2 of the pipeline can build from two texts.
Requirements(persona_text, job_text, env) ==
    {combine_requirements(analyze_persona(persona_text, env), job_analysis) :
        job_analysis \in analyze_job(job_text, env)}

(***************************************************************************)
(* Scores.  A Python float is an IEEE 754 binary64 number.  A score is     *)
(* never negative, infinite or subnormal, so a float is kept as            *)
(* [mantissa, exponent] with value mantissa * 2^exponent, where the        *)
(* mantissa is 0 (with exponent 0) or has exactly 53 bits.  The mantissa   *)
(* is a sequence of four 14-bit limbs, least significant first, because    *)
(* the integers of the checker have 32 bits.  Every operation computes     *)
(* the exact result and rounds it to the nearest float, ties to even.      *)
(***************************************************************************)

LimbBits == 2 * 7

LimbBase == 2^LimbBits

MantissaBits == 52 + 1

\* The i-th limb of the natural number a, 0 beyond its ends.
Limb(a, i) == IF 1 <= i /\ i <= Len(a) THEN a[i] ELSE 0

RECURSIVE Carry(_, _, _)
\* The limbs of the number whose i-th column holds cols[i], carries propagated.
Carry(cols, i, carry) ==
    IF i > Len(cols) THEN <<>>
    ELSE <<(cols[i] + carry) % LimbBase>>
         \o Carry(cols, i + 1, (cols[i] + carry) \div LimbBase)

RECURSIVE ColumnSum(_, _, _, _)
\* The sum of a[i] * b[k + 1 - i] over the i from lo on.
ColumnSum(a, b, k, lo) ==
    IF lo > Len(a) \/ lo > k THEN 0
    ELSE Limb(a, lo) * Limb(b, k + 1 - lo) + ColumnSum(a, b, k, lo + 1)

\* a * b
BigMul(a, b) ==
    Carry([k \in 1..(Len(a) + Len(b)) |-> ColumnSum(a, b, k, 1)], 1, 0)

\* a + b
BigAdd(a, b) ==
    Carry([i \in 1..((IF Len(a) > Len(b) THEN Len(a) ELSE Len(b)) + 1) |->
              Limb(a, i) + Limb(b, i)], 1, 0)

RECURSIVE Borrow(_, _, _, _)
\* a - b for a >= b, limb by limb from the i-th.
Borrow(a, b, i, borrow) ==
    IF i > Len(a) THEN <<>>
    ELSE LET t == a[i] - Limb(b, i) - borrow
         IN  <<(t + LimbBase) % LimbBase>>
             \o Borrow(a, b, i + 1, IF t < 0 THEN 1 ELSE 0)

BigSub(a, b) == Borrow(a, b, 1, 0)

\* The sign of a - b.
BigCmp(a, b) ==
    LET n == IF Len(a) > Len(b) THEN Len(a) ELSE Len(b)
        differ == {i \in 1..n : Limb(a, i) # Limb(b, i)}
    IN  IF differ = {} THEN 0
        ELSE LET top == CHOOSE i \in differ : \A j \in differ : j <= i
             IN  IF Limb(a, top) < Limb(b, top) THEN -1 ELSE 1

\* The number of bits of a: 0 for 0, else 1 + floor(log2(a)).
BitLength(a) ==
    LET used == {i \in 1..Len(a) : a[i] # 0}
    IN  IF used = {} THEN 0
        ELSE LET top == CHOOSE i \in used : \A j \in used : j <= i
             IN  LimbBits * (top - 1)
                 + (CHOOSE n \in 1..LimbBits : 2^(n - 1) <= a[top] /\ a[top] < 2^n)

\* Bit k of a (bit 0 is the least significant).
Bit(a, k) == (Limb(a, k \div LimbBits + 1) \div 2^(k % LimbBits)) % 2

\* Some bit of a below bit k is set.
AnyBitBelow(a, k) ==
    \E i \in 1..Len(a) :
        IF LimbBits * i <= k THEN a[i] # 0
        ELSE IF LimbBits * (i - 1) < k THEN a[i] % 2^(k - LimbBits * (i - 1)) # 0
        ELSE FALSE

\* floor(a / 2^s)
ShiftRight(a, s) ==
    LET q == s \div LimbBits
        r == s % LimbBits
    IN  [i \in 1..(IF Len(a) > q THEN Len(a) - q ELSE 1) |->
            Limb(a, i + q) \div 2^r
            + (Limb(a, i + q + 1) % 2^r) * 2^(LimbBits - r)]

\* a * 2^s
ShiftLeft(a, s) ==
    LET q == s \div LimbBits
        r == s % LimbBits
    IN  [i \in 1..(Len(a) + q + 1) |->
            (Limb(a, i - q) % 2^(LimbBits - r)) * 2^r
            + Limb(a, i - q - 1) \div 2^(LimbBits - r)]

\* The limbs of a natural number below 2^31.
Limbs(n) == <<n % LimbBase, (n \div LimbBase) % LimbBase, n \div (LimbBase * LimbBase)>>

\* The natural number of the limbs a, which is below 2^31.
Natural(a) == Limb(a, 1) + LimbBase * Limb(a, 2) + LimbBase * LimbBase * Limb(a, 3)

\* The float 0.0
Zero == [mantissa |-> <<0, 0, 0, 0>>, exponent |-> 0]

\* The nearest float to n * 2^e, ties to even (n a natural number in limbs).
RoundToFloat(n, e) ==
    LET bits == BitLength(n)
        s == bits - MantissaBits
    IN  IF bits = 0 THEN Zero
        ELSE IF s <= 0 THEN
            [mantissa |-> SubSeq(ShiftLeft(n, -s) \o <<0, 0, 0>>, 1, 4),
             exponent |-> e + s]
        ELSE
            LET kept == ShiftRight(n, s)
                up == Bit(n, s - 1) = 1 /\ (AnyBitBelow(n, s - 1) \/ Bit(n, s) = 1)
                m == IF up THEN BigAdd(kept, <<1>>) ELSE kept
            IN  IF BitLength(m) > MantissaBits
                THEN [mantissa |-> SubSeq(ShiftRight(m, 1) \o <<0, 0, 0>>, 1, 4),
                      exponent |-> e + s + 1]
                ELSE [mantissa |-> SubSeq(m \o <<0, 0, 0>>, 1, 4),
                      exponent |-> e + s]

\* float(n) for an int n >= 0
Float(n) == RoundToFloat(Limbs(n), 0)

\* x * y
Mul(x, y) ==
    IF x = Zero \/ y = Zero THEN Zero
    ELSE RoundToFloat(BigMul(x.mantissa, y.mantissa), x.exponent + y.exponent)

\* x + y
Add(x, y) ==
    IF x = Zero THEN y
    ELSE IF y = Zero THEN x
    ELSE LET e == IF x.exponent < y.exponent THEN x.exponent ELSE y.exponent
         IN  RoundToFloat(BigAdd(ShiftLeft(x.mantissa, x.exponent - e),
                                 ShiftLeft(y.mantissa, y.exponent - e)), e)

\* The mantissa m in two halves: its bits from bit 27 up, and its low 27 bits.
HighHalf(m) == m[2] \div 2^13 + 2 * m[3] + 2^15 * m[4]

LowHalf(m) == m[1] + LimbBase * (m[2] % 2^13)

\* One step of the long division by the mantissa with halves dhi and dlo:
\* the next bit of the quotient is 1 exactly when the divisor fits into the
\* remainder, which is then doubled.  The remainder is kept in two halves of
\* 27 bits and the quotient in two halves of 28 bits.
DivisionStep(st, dhi, dlo) ==
    LET fits == st.hi > dhi \/ (st.hi = dhi /\ st.lo >= dlo)
        borrow == IF fits /\ st.lo < dlo THEN 1 ELSE 0
        lo == IF fits THEN st.lo - dlo + borrow * 2^27 ELSE st.lo
        hi == IF fits THEN st.hi - dhi - borrow ELSE st.hi
        qlo == 2 * st.qlo + (IF fits THEN 1 ELSE 0)
    IN  [hi |-> 2 * hi + (2 * lo) \div 2^27,
         lo |-> (2 * lo) % 2^27,
         qhi |-> 2 * st.qhi + qlo \div 2^28,
         qlo |-> qlo % 2^28,
         steps |-> st.steps - 1]

RECURSIVE LongDivision(_, _, _)
\* The division steps that are left.
LongDivision(st, dhi, dlo) ==
    IF st.steps = 0 THEN st ELSE LongDivision(DivisionStep(st, dhi, dlo), dhi, dlo)

\* 2 * floor(a * 2^55 / d), plus 1 if that division leaves a remainder, for
\* two mantissas of 53 bits: 56 bits of the quotient by long division.
QuotientBits(a, d) ==
    LET st == LongDivision([hi |-> HighHalf(a), lo |-> LowHalf(a),
                            qhi |-> 0, qlo |-> 0, steps |-> MantissaBits + 3],
                           HighHalf(d), LowHalf(d))
        sticky == IF st.hi = 0 /\ st.lo = 0 THEN 0 ELSE 1
        qlo == (2 * st.qlo + sticky) % 2^28
        qhi == 2 * st.qhi + (2 * st.qlo + sticky) \div 2^28
    IN  <<qlo % LimbBase, qlo \div LimbBase,
          qhi % LimbBase, (qhi \div LimbBase) % LimbBase, qhi \div 2^28>>

\* x / y for y # 0
Div(x, y) ==
    IF x = Zero THEN Zero
    ELSE RoundToFloat(QuotientBits(x.mantissa, y.mantissa),
                      x.exponent - y.exponent - (MantissaBits + 3))

\* The sign of x - y.
Cmp(x, y) ==
    IF x = Zero \/ y = Zero
    THEN (IF x = y THEN 0 ELSE IF x = Zero THEN -1 ELSE 1)
    ELSE IF x.exponent # y.exponent
    THEN (IF x.exponent < y.exponent THEN -1 ELSE 1)
    ELSE BigCmp(x.mantissa, y.mantissa)

\* x == y
Eq(x, y) == x = y

\* x < y
Less(x, y) == Cmp(x, y) < 0

\* x <= y
Leq(x, y) == Cmp(x, y) <= 0

\* The float literal with the decimal value p / q: the nearest float to it.
Literal(p, q) == Div(Float(p), Float(q))

\* The numeric literals of the source as floats, each the nearest float to the
\* decimal written: Literal(p, q) of its digits, here in evaluated form.
\* 1 and 1.0 = 0x1.0000000000000p+0
One == [mantissa |-> <<0, 0, 0, 1024>>, exponent |-> -52]

\* 10 = 0x1.4000000000000p+3
Ten == [mantissa |-> <<0, 0, 0, 1280>>, exponent |-> -49]

\* 100 = 0x1.9000000000000p+6
Hundred == [mantissa |-> <<0, 0, 0, 1600>>, exponent |-> -46]

\* 0.1 = 0x1.999999999999ap-4
Literal_0_1 == [mantissa |-> <<6554, 9830, 6553, 1638>>, exponent |-> -56]

\* 0.8 = 0x1.999999999999ap-1
Literal_0_8 == [mantissa |-> <<6554, 9830, 6553, 1638>>, exponent |-> -53]

\* 1.05 = 0x1.0cccccccccccdp+0
Literal_1_05 == [mantissa |-> <<3277, 13107, 3276, 1075>>, exponent |-> -52]

\* 1.1 = 0x1.199999999999ap+0
Literal_1_1 == [mantissa |-> <<6554, 9830, 6553, 1126>>, exponent |-> -52]

\* 1.15 = 0x1.2666666666666p+0
Literal_1_15 == [mantissa |-> <<9830, 6553, 9830, 1177>>, exponent |-> -52]

\* 1.2 = 0x1.3333333333333p+0
Literal_1_2 == [mantissa |-> <<13107, 3276, 13107, 1228>>, exponent |-> -52]

\* 1.3 = 0x1.4cccccccccccdp+0
Literal_1_3 == [mantissa |-> <<3277, 13107, 3276, 1331>>, exponent |-> -52]

\* round(x, 4) in ten-thousandths: the nearest integer to the exact value of
\* x * 10^4, ties to even; the float returned is the nearest one to it / 10^4.
Round4(x) ==
    LET n == BigMul(x.mantissa, Limbs(10000))
        s == -x.exponent
        up == Bit(n, s - 1) = 1 /\ (AnyBitBelow(n, s - 1) \/ Bit(n, s) = 1)
    IN  IF x = Zero THEN 0
        ELSE Natural(ShiftRight(n, s)) + (IF up THEN 1 ELSE 0)

(***************************************************************************)
(* relevance_scorer.py: RelevanceScorer                                    *)
(***************************************************************************)

\* academic_terms, business_terms and edu_terms of _calculate_comprehensive_score.
domain_bonus_terms ==
    [academic_research |->
        << <<"m","e","t","h","o","d","o","l","o","g","y">>,
           <<"r","e","s","u","l","t","s">>,
           <<"d","i","s","c","u","s","s","i","o","n">>,
           <<"a","n","a","l","y","s","i","s">>,
           <<"f","i","n","d","i","n","g","s">> >>,
     business_analysis |->
        << <<"f","i","n","a","n","c","i","a","l">>,
           <<"r","e","v","e","n","u","e">>,
           <<"p","e","r","f","o","r","m","a","n","c","e">>,
           <<"m","a","r","k","e","t">>,
           <<"s","t","r","a","t","e","g","y">> >>,
     education |->
        << <<"c","o","n","c","e","p","t">>,
           <<"t","h","e","o","r","y">>,
           <<"p","r","i","n","c","i","p","l","e">>,
           <<"e","x","a","m","p","l","e">>,
           <<"p","r","o","b","l","e","m">> >> ]

\* sum(1 for keyword in requirements.get('all_keywords', []) if keyword in title_lower)
TitleKeywordMatches(title, requirements) ==
    Cardinality({keyword \in requirements.all_keywords : InStr(keyword, Lower(title))})

\* any(term in title_lower for term in <the terms of the domain>), for the three
\* domains the if/elif chain knows.
DomainTermInTitle(title, domain) ==
    /\ domain \in DOMAIN domain_bonus_terms
    /\ \E i \in 1..Len(domain_bonus_terms[domain]) :
          InStr(domain_bonus_terms[domain][i], Lower(title))

\* A slip in the first comparison chain: 100 <= word_count < 500.
ApplyLengthBonus_ExclusiveUpper(score, word_count) ==
    IF 100 <= word_count /\ word_count < 500 THEN Mul(score, Literal_1_1)
    ELSE IF (50 <= word_count /\ word_count < 100)
            \/ (500 < word_count /\ word_count <= 1000) THEN Mul(score, Literal_1_05)
    ELSE IF word_count < 50 THEN Mul(score, Literal_0_8)
    ELSE score

\* "Length bonus (moderate length preferred)"
ApplyLengthBonus(score, word_count) ==
    IF 100 <= word_count /\ word_count <= 500 THEN Mul(score, Literal_1_1)
    ELSE IF (50 <= word_count /\ word_count < 100)
            \/ (500 < word_count /\ word_count <= 1000) THEN Mul(score, Literal_1_05)
    ELSE IF word_count < 50 THEN Mul(score, Literal_0_8)
    ELSE score

\* "Title relevance bonus": score *= (1 + 0.1 * keyword_matches)
ApplyTitleBonus(score, keyword_matches) ==
    IF keyword_matches > 0
    THEN Mul(score, Add(One, Mul(Literal_0_1, Float(keyword_matches))))
    ELSE score

\* A domain bonus that is only given to scores still below 1.
ApplyDomainBonus_CappedAtOne(score, title, domain) ==
    IF DomainTermInTitle(title, domain) /\ Less(score, One)
    THEN Mul(score, Literal_1_15)
    ELSE score

\* "Domain-specific bonuses"
ApplyDomainBonus(score, title, domain) ==
    IF DomainTermInTitle(title, domain) THEN Mul(score, Literal_1_15) ELSE score

_calculate_comprehensive_score(base_score, section_metadata, requirements) ==
    ApplyDomainBonus(
        ApplyTitleBonus(
            ApplyLengthBonus(base_score, section_metadata.word_count),
            TitleKeywordMatches(section_metadata.title, requirements)),
        section_metadata.title,
        requirements.domain_focus)

(***************************************************************************)
(* Section titles of the model's documents.                                *)
(***************************************************************************)

\* "Introduction"
TitleIntroduction ==
    <<"I","n","t","r","o","d","u","c","t","i","o","n">>

\* "Methodology"
TitleMethodology ==
    <<"M","e","t","h","o","d","o","l","o","g","y">>

\* "Results and Discussion"
TitleResults ==
    <<"R","e","s","u","l","t","s"," ","a","n","d"," ","D","i","s","c","u","s","s","i","o","n">>

\* "Preface"
TitlePreface ==
    <<"P","r","e","f","a","c","e">>

\* "Market Performance"
TitleMarket ==
    <<"M","a","r","k","e","t"," ","P","e","r","f","o","r","m","a","n","c","e">>

\* "Theory and Examples"
TitleTheory ==
    <<"T","h","e","o","r","y"," ","a","n","d"," ","E","x","a","m","p","l","e","s">>

Titles ==
    {TitleIntroduction, TitleMethodology, TitleResults,
     TitlePreface, TitleMarket, TitleTheory}

(***************************************************************************)
(* One call of _calculate_comprehensive_score, on any section metadata,    *)
(* any base similarity and any requirement model the builder produces.     *)
(***************************************************************************)

\* Every requirement model combine_requirements builds from the model's texts.
RequirementModels ==
    UNION {Requirements(p, j, env) : p \in PersonaTexts, j \in JobTexts, env \in Envs}

\* 0.5 = 0x1.0000000000000p-1
Half == [mantissa |-> <<0, 0, 0, 1024>>, exponent |-> -53]

\* Base similarities: the cosine values 0.0, 0.25, 0.5, 0.9 and 1.0, and the
\* keyword densities 7 / 3 and 16.0, above 1.
BaseScores ==
    {Zero,
     [mantissa |-> <<0, 0, 0, 1024>>, exponent |-> -54],
     Half,
     [mantissa |-> <<3277, 13107, 3276, 1843>>, exponent |-> -53],
     One,
     [mantissa |-> <<10923, 10922, 10922, 1194>>, exponent |-> -51],
     [mantissa |-> <<0, 0, 0, 1024>>, exponent |-> -48]}

\* Word counts on both sides of every threshold of the length bonus.
WordCounts == {1, 40, 49, 50, 99, 100, 101, 500, 501, 1000, 1001}

ScoreInit ==
    /\ score_args \in
          [base_score : BaseScores,
           section_metadata : [title : Titles, word_count : WordCounts],
           requirements : RequirementModels]
    /\ score_result = <<>>
    /\ ScorerIdle
    /\ SubIdle
    /\ MainIdle
    /\ HeaderIdle
    /\ ReqIdle
    /\ RefineIdle
    /\ AnalysisIdle
    /\ DocIdle

ScoreCall ==
    /\ score_result = <<>>
    /\ score_result' =
          << _calculate_comprehensive_score(score_args.base_score,
                                            score_args.section_metadata,
                                            score_args.requirements) >>
    /\ UNCHANGED score_args
    /\ UNCHANGED outsideScore

ScoreNext == ScoreCall

SpecScore == ScoreInit /\ [][ScoreNext]_vars

(***************************************************************************)
(* document_processor.py: DocumentProcessor                                *)
(***************************************************************************)

\* The minor words of the title-case rule.
minor_words ==
    { <<"a">>,
      <<"a","n">>,
      <<"t","h","e">>,
      <<"o","f">>,
      <<"i","n">>,
      <<"o","n">>,
      <<"f","o","r">>,
      <<"w","i","t","h">> }

\* section_keywords of _is_section_header.
section_keywords ==
    << <<"i","n","t","r","o","d","u","c","t","i","o","n">>,
       <<"m","e","t","h","o","d","o","l","o","g","y">>,
       <<"r","e","s","u","l","t","s">>,
       <<"d","i","s","c","u","s","s","i","o","n">>,
       <<"c","o","n","c","l","u","s","i","o","n">>,
       <<"a","b","s","t","r","a","c","t">>,
       <<"b","a","c","k","g","r","o","u","n","d">>,
       <<"l","i","t","e","r","a","t","u","r","e">>,
       <<"m","e","t","h","o","d","s">>,
       <<"a","n","a","l","y","s","i","s">>,
       <<"s","u","m","m","a","r","y">>,
       <<"r","e","f","e","r","e","n","c","e","s">>,
       <<"a","p","p","e","n","d","i","x">>,
       <<"o","v","e","r","v","i","e","w">>,
       <<"a","p","p","r","o","a","c","h">> >>

\* re.match(r'^[0-9]+\.', line): digits from the start, then a period.  The
\* second pattern of the source, ^[0-9]+\.[0-9]+, matches only where this one does.
MatchesNumbered(line) ==
    \E n \in 1..(Len(line) - 1) :
        /\ \A i \in 1..n : line[i] \in DigitSet
        /\ line[n + 1] = "."

\* re.match(r'^[IVX]+\.', line) or re.match(r'^[A-Z]\.', line)
MatchesLettered(line) ==
    \/ \E n \in 1..(Len(line) - 1) :
          /\ \A i \in 1..n : line[i] \in {"I", "V", "X"}
          /\ line[n + 1] = "."
    \/ (Len(line) >= 2 /\ line[1] \in AsciiCapitals /\ line[2] = ".")

\* str.isupper(): at least one cased character and no lower-case one.
IsUpper(s) ==
    /\ \E i \in 1..Len(s) : s[i] \in UpperSet
    /\ \A i \in 1..Len(s) : s[i] \notin LowerSet

\* The title-case rule without its minor words.
IsTitleCase_NoMinorWords(line) ==
    LET words == Split(line)
    IN  /\ Len(words) <= 8
        /\ \A k \in 1..Len(words) : words[k][1] \in UpperSet

\* The title-case rule: at most 8 words, each capitalised or a minor word.
IsTitleCase(line) ==
    LET words == Split(line)
    IN  /\ Len(words) <= 8
        /\ \A k \in 1..Len(words) :
              words[k][1] \in UpperSet \/ Lower(words[k]) \in minor_words

_is_section_header(raw_line) ==
    LET line == Strip(raw_line)
    IN  IF Len(line) < 3 \/ Len(line) > 200 THEN FALSE
        ELSE IF MatchesNumbered(line) THEN TRUE
        ELSE IF MatchesLettered(line) THEN TRUE
        ELSE IF IsUpper(line) /\ WordCount(line) <= 10 THEN TRUE
        ELSE IF IsTitleCase(line) THEN TRUE
        ELSE \E k \in 1..Len(section_keywords) :
                InStr(section_keywords[k], Lower(line))

\* text.split('\n'): the pieces between newlines, empty ones included.
SplitLines(text) ==
    LET breaks == {i \in 1..Len(text) : text[i] = "\n"}
        n == Cardinality(breaks)
        Break(k) == IF k = 0 THEN 0
                    ELSE IF k = n + 1 THEN Len(text) + 1
                    ELSE Nth(breaks, k)
    IN  [k \in 1..(n + 1) |-> SubSeq(text, Break(k - 1) + 1, Break(k) - 1)]

\* The section dict with its content lines joined by spaces.
MakeSection_SpaceJoined(current_section, current_content, page_num) ==
    [title |-> current_section,
     content |-> Join(<<" ">>, current_content),
     page_number |-> page_num,
     word_count |-> WordCount(Join(<<" ">>, current_content)),
     char_count |-> Len(Join(<<" ">>, current_content))]

\* The section dict the segmenter appends for a header and its content lines.
MakeSection(current_section, current_content, page_num) ==
    [title |-> current_section,
     content |-> Join(<<"\n">>, current_content),
     page_number |-> page_num,
     word_count |-> WordCount(Join(<<" ">>, current_content)),
     char_count |-> Len(Join(<<"\n">>, current_content))]

\* The append without the test for content lines.
SaveSection_AnyContent(sections, current_section, current_content, page_num) ==
    IF current_section # <<>>
    THEN Append(sections, MakeSection(current_section[1], current_content, page_num))
    ELSE sections

\* "Save previous section" and "Add final section": the section is appended
\* only when a header is open and it has content lines.
SaveSection(sections, current_section, current_content, page_num) ==
    IF current_section # <<>> /\ current_content # <<>>
    THEN Append(sections, MakeSection(current_section[1], current_content, page_num))
    ELSE sections

RECURSIVE SegmentLines(_, _, _, _, _, _)
\* The loop of _extract_sections_from_page from line i on, and the final append.
\* current_section is <<>> for None and <<title>> otherwise.
SegmentLines(lines, i, page_num, sections, current_section, current_content) ==
    IF i > Len(lines)
    THEN SaveSection(sections, current_section, current_content, page_num)
    ELSE LET line == Strip(lines[i])
         IN  IF line = <<>>
             THEN SegmentLines(lines, i + 1, page_num, sections,
                               current_section, current_content)
             ELSE IF _is_section_header(line)
             THEN SegmentLines(lines, i + 1, page_num,
                               SaveSection(sections, current_section,
                                           current_content, page_num),
                               <<line>>, <<>>)
             ELSE SegmentLines(
                      lines, i + 1, page_num, sections, current_section,
                      IF current_section # <<>>
                      THEN Append(current_content, line)
                      ELSE current_content)

_extract_sections_from_page(text, page_num) ==
    SegmentLines(SplitLines(text), 1, page_num, <<>>, <<>>, <<>>)

\* The PDF collaborator's answer for one file: whether pdfplumber.open succeeds,
\* and per page whether extract_text raises and the text it returns otherwise.
\* A pdf is [name, opens, pages], a page [raises, text].

RECURSIVE PageSections(_, _)
\* doc_data['sections'] after the pages from page_num on were extended into it.
PageSections(pages, page_num) ==
    IF page_num > Len(pages) THEN <<>>
    ELSE _extract_sections_from_page(pages[page_num].text, page_num)
         \o PageSections(pages, page_num + 1)

RECURSIVE FullText(_, _)
\* doc_data['full_text']: every page text followed by a newline.
FullText(pages, page_num) ==
    IF page_num > Len(pages) THEN <<>>
    ELSE pages[page_num].text \o <<"\n">> \o FullText(pages, page_num + 1)

\* extract_text_from_pdf that returns the pages extracted before the failing one.
extract_text_from_pdf_Partial(pdf) ==
    IF ~pdf.opens THEN <<>>
    ELSE LET good == {n \in 0..Len(pdf.pages) : \A p \in 1..n : ~pdf.pages[p].raises}
             last == CHOOSE n \in good : \A m \in good : m <= n
         IN  << [file_name |-> pdf.name,
                 total_pages |-> Len(pdf.pages),
                 sections |-> PageSections(SubSeq(pdf.pages, 1, last), 1),
                 full_text |-> FullText(SubSeq(pdf.pages, 1, last), 1)] >>

\* extract_text_from_pdf: <<doc_data>>, or <<>> for the None the except clause
\* returns when opening the file or extracting any page raises.
extract_text_from_pdf(pdf) ==
    IF ~pdf.opens \/ (\E p \in 1..Len(pdf.pages) : pdf.pages[p].raises)
    THEN <<>>
    ELSE << [file_name |-> pdf.name,
             total_pages |-> Len(pdf.pages),
             sections |-> PageSections(pdf.pages, 1),
             full_text |-> FullText(pdf.pages, 1)] >>

\* dict[key] = value on a dict kept as the sequence of its <<key, value>> items in
\* insertion order: a key already present keeps its place.
DictSet(dict, key, value) ==
    IF \E i \in 1..Len(dict) : dict[i][1] = key
    THEN [i \in 1..Len(dict) |-> IF dict[i][1] = key THEN <<key, value>> ELSE dict[i]]
    ELSE Append(dict, <<key, value>>)

RECURSIVE ProcessFrom(_, _, _)
\* The loop of process_documents from the i-th path on.
ProcessFrom(pdfs, i, processed_docs) ==
    IF i > Len(pdfs) THEN processed_docs
    ELSE LET doc_data == extract_text_from_pdf(pdfs[i])
         IN  ProcessFrom(pdfs, i + 1,
                         IF doc_data # <<>>
                         THEN DictSet(processed_docs, pdfs[i].name, doc_data[1])
                         ELSE processed_docs)

process_documents(pdfs) == ProcessFrom(pdfs, 1, <<>>)

(***************************************************************************)
(* relevance_scorer.py: the scorer object                                  *)
(*                                                                         *)
(* The vector collaborator is abstract: a fitted row of the TF-IDF matrix  *)
(* is kept as the cosine similarity cosine_similarity will report for it   *)
(* against the requirement row fitted with it.  None is <<>>, a value v    *)
(* is <<v>>.                                                               *)
(***************************************************************************)

\* RelevanceScorer.__init__
NewScorer(env) ==
    [tfidf_vectorizer |-> env.sklearn,
     section_vectors |-> <<>>,
     requirement_vector |-> <<>>,
     section_metadata |-> <<>>,
     section_texts |-> <<>>,
     requirements |-> <<>>]

RECURSIVE CollectSections(_, _)
\* The sections of all documents from the d-th on, each with its document name.
CollectSections(documents, d) ==
    IF d > Len(documents) THEN <<>>
    ELSE [s \in 1..Len(documents[d][2].sections) |->
            [document |-> documents[d][1],
             section |-> documents[d][2].sections[s]]]
         \o CollectSections(documents, d + 1)

\* self.section_metadata as prepare_scoring builds it.
SectionMetadata(documents) ==
    LET all == CollectSections(documents, 1)
    IN  [i \in 1..Len(all) |->
            [document |-> all[i].document,
             title |-> all[i].section.title,
             page_number |-> all[i].section.page_number,
             word_count |-> all[i].section.word_count,
             section_index |-> i - 1]]

\* section_texts as prepare_scoring builds it.
SectionTexts(documents) ==
    LET all == CollectSections(documents, 1)
    IN  [i \in 1..Len(all) |-> all[i].section.content]

\* prepare_scoring.  fit is the outcome of self.tfidf_vectorizer.fit_transform,
\* used only when the vectorizer exists and there are sections: <<>> when it
\* raises, else <<sims>> with one similarity per section.
prepare_scoring(scorer, documents, requirements, fit) ==
    LET metadata == SectionMetadata(documents)
        texts == SectionTexts(documents)
        prepared == [scorer EXCEPT !.section_metadata = metadata]
        fallback == [prepared EXCEPT !.section_texts = texts,
                                     !.requirements = <<requirements>>]
    IN  IF Len(texts) = 0 THEN prepared
        ELSE IF scorer.tfidf_vectorizer
        THEN IF fit # <<>>
             THEN [prepared EXCEPT !.section_vectors = <<fit[1]>>,
                                   !.requirement_vector = <<TRUE>>]
             ELSE fallback
        ELSE fallback

\* The table local to _get_relevance_factors: three terms per domain.
factor_domain_keywords ==
    [academic_research |->
        << <<"m","e","t","h","o","d","o","l","o","g","y">>,
           <<"r","e","s","u","l","t","s">>,
           <<"a","n","a","l","y","s","i","s">> >>,
     business_analysis |->
        << <<"f","i","n","a","n","c","i","a","l">>,
           <<"p","e","r","f","o","r","m","a","n","c","e">>,
           <<"m","a","r","k","e","t">> >>,
     education |->
        << <<"c","o","n","c","e","p","t">>,
           <<"t","h","e","o","r","y">>,
           <<"e","x","a","m","p","l","e">> >>]

\* _get_relevance_factors: which factors are reported, at most three.  The text
\* of a factor (the matched words) is left out.
_get_relevance_factors(metadata, requirements) ==
    LET title_lower == Lower(metadata.title)
        domain == requirements.domain_focus
    IN  (IF \E k \in requirements.all_keywords : InStr(k, title_lower)
         THEN <<"Title matches">> ELSE <<>>)
        \o (IF /\ domain \in DOMAIN factor_domain_keywords
                /\ \E i \in 1..Len(factor_domain_keywords[domain]) :
                      InStr(factor_domain_keywords[domain][i], title_lower)
            THEN <<"Domain relevance">> ELSE <<>>)
        \o (IF 100 <= metadata.word_count /\ metadata.word_count <= 500
            THEN <<"Optimal length">>
            ELSE IF metadata.word_count > 500
            THEN <<"Comprehensive content">> ELSE <<>>)

\* One scored section: the metadata and the scores.
ScoredSection(metadata, base, requirements) ==
    [document |-> metadata.document,
     title |-> metadata.title,
     page_number |-> metadata.page_number,
     word_count |-> metadata.word_count,
     section_index |-> metadata.section_index,
     base_similarity |-> base,
     comprehensive_score |->
         _calculate_comprehensive_score(base, metadata, requirements),
     relevance_factors |-> _get_relevance_factors(metadata, requirements)]

RECURSIVE SortedByScore(_, _)
\* list.sort(key=comprehensive_score, reverse=True) of the first n elements: a
\* stable sort, so an element goes behind every element that does not score less.
SortedByScore(sections, n) ==
    IF n = 0 THEN <<>>
    ELSE LET before == SortedByScore(sections, n - 1)
             x == sections[n]
             keep == Cardinality({i \in 1..Len(before) :
                        ~Less(before[i].comprehensive_score,
                              x.comprehensive_score)})
         IN  SubSeq(before, 1, keep) \o <<x>> \o SubSeq(before, keep + 1, Len(before))

\* "Add importance ranks": enumerate(scored_sections, 1)
WithRanks(sections) ==
    [i \in 1..Len(sections) |->
        [document |-> sections[i].document,
         title |-> sections[i].title,
         page_number |-> sections[i].page_number,
         word_count |-> sections[i].word_count,
         section_index |-> sections[i].section_index,
         base_similarity |-> sections[i].base_similarity,
         comprehensive_score |-> sections[i].comprehensive_score,
         relevance_factors |-> sections[i].relevance_factors,
         importance_rank |-> i]]

\* min(a, b)
Min(a, b) == IF a < b THEN a ELSE b

\* _calculate_tfidf_scores: zip pairs the similarities of the fitted rows with the
\* metadata and stops at the shorter of the two.
_calculate_tfidf_scores(scorer, requirements) ==
    LET similarity_scores == scorer.section_vectors[1]
        n == Min(Len(similarity_scores), Len(scorer.section_metadata))
        scored == [i \in 1..n |->
                     ScoredSection(scorer.section_metadata[i], similarity_scores[i],
                                   requirements)]
    IN  WithRanks(SortedByScore(scored, n))

\* keyword_score / max(len(section_text.split()) / 100, 1)
FallbackBase(section_text, keywords) ==
    LET keyword_score == Cardinality({k \in keywords : InStr(k, Lower(section_text))})
        words == WordCount(section_text)
        ratio == Div(Float(words), Hundred)
    IN  Div(Float(keyword_score), IF Less(ratio, One) THEN One ELSE ratio)

_calculate_fallback_scores(scorer, requirements) ==
    LET n == Len(scorer.section_metadata)
        scored == [i \in 1..n |->
                     ScoredSection(scorer.section_metadata[i],
                                   FallbackBase(scorer.section_texts[i],
                                                requirements.all_keywords),
                                   requirements)]
    IN  WithRanks(SortedByScore(scored, n))

\* The strategy calculate_relevance_scores takes.
UsesVectors(scorer) ==
    scorer.section_vectors # <<>> /\ scorer.requirement_vector # <<>>

calculate_relevance_scores(scorer, requirements) ==
    IF UsesVectors(scorer)
    THEN _calculate_tfidf_scores(scorer, requirements)
    ELSE _calculate_fallback_scores(scorer, requirements)

\* A slip in the slice: scored_sections[:top_n + 1].
extract_top_sections_OneMore(scored_sections, top_n) ==
    LET top_sections == Take(scored_sections, top_n + 1)
    IN  [i \in 1..Len(top_sections) |->
            [document |-> top_sections[i].document,
             page_number |-> top_sections[i].page_number,
             section_title |-> top_sections[i].title,
             importance_rank |-> top_sections[i].importance_rank,
             relevance_score |-> Round4(top_sections[i].comprehensive_score),
             relevance_factors |-> top_sections[i].relevance_factors]]

\* extract_top_sections
extract_top_sections(scored_sections, top_n) ==
    LET top_sections == Take(scored_sections, top_n)
    IN  [i \in 1..Len(top_sections) |->
            [document |-> top_sections[i].document,
             page_number |-> top_sections[i].page_number,
             section_title |-> top_sections[i].title,
             importance_rank |-> top_sections[i].importance_rank,
             relevance_score |-> Round4(top_sections[i].comprehensive_score),
             relevance_factors |-> top_sections[i].relevance_factors]]

(***************************************************************************)
(* Page texts and files the scorer and the pipeline are run on             *)
(***************************************************************************)

PageOverview ==
    <<"I","n","t","r","o","d","u","c","t","i","o","n","\n","m","a","r","k","e","t"," ","g","r","o","w","t","h"," ","h","e","r","e","\n">>

PageMethods ==
    <<"I","n","t","r","o","d","u","c","t","i","o","n","\n","r","e","v","e","n","u","e"," ","t","r","e","n","d","s"," ","h","e","r","e","\n","M","e","t","h","o","d","o","l","o","g","y","\n","m","a","r","k","e","t"," ","d","a","t","a"," ","h","e","r","e","\n">>

PageReport ==
    <<"I","n","t","r","o","d","u","c","t","i","o","n","\n","r","e","v","e","n","u","e"," ","t","r","e","n","d","s","\n","R","e","s","u","l","t","s"," ","a","n","d"," ","D","i","s","c","u","s","s","i","o","n","\n","r","e","v","e","n","u","e"," ","t","r","e","n","d","s","\n","M","a","r","k","e","t"," ","P","e","r","f","o","r","m","a","n","c","e","\n","a","d","o","b","e"," ","r","e","v","e","n","u","e","\n">>

PagePlain ==
    <<"p","l","a","i","n"," ","w","o","r","d","s"," ","o","n","l","y","\n">>

\* A file whose pages all extract.
Pdf(name, texts) ==
    [name |-> name, opens |-> TRUE,
     pages |-> [p \in 1..Len(texts) |-> [raises |-> FALSE, text |-> texts[p]]]]

PdfOverview == Pdf("overview.pdf", <<PageOverview>>)
PdfMethods == Pdf("methods.pdf", <<PageMethods>>)
PdfReport == Pdf("report.pdf", <<PageReport>>)
PdfPlain == Pdf("plain.pdf", <<PagePlain>>)
\* A file that cannot be opened, and one whose second page fails to extract.
PdfUnreadable == [name |-> "unreadable.pdf", opens |-> FALSE, pages |-> <<>>]
PdfBrokenPage ==
    [name |-> "broken.pdf", opens |-> TRUE,
     pages |-> << [raises |-> FALSE, text |-> PageOverview],
                  [raises |-> TRUE, text |-> <<>>] >>]

(***************************************************************************)
(* SpecScorer: one RelevanceScorer driven through runs of prepare_scoring, *)
(* calculate_relevance_scores and extract_top_sections, as process does    *)
(* once per collection on the scorer it keeps.                             *)
(***************************************************************************)

\* How many runs one scorer is taken through.
MaxRuns == 2

\* The largest top_n tried: one more than the most sections a run has.
MaxTopN == 4

\* The cosine similarities a fitted row can have against the requirement row.
SimValues == {Zero, Half, One}

\* The documents dicts handed to the scorer.
ScorerDocuments ==
    {process_documents(<<PdfOverview>>),
     process_documents(<<PdfMethods>>),
     process_documents(<<PdfReport>>),
     process_documents(<<PdfPlain>>),
     process_documents(<<PdfOverview, PdfMethods>>)}

\* Every optional import succeeds and every model and corpus is installed.
EnvFull ==
    [spacy |-> TRUE, nltk |-> TRUE, model |-> TRUE, corpora |-> TRUE,
     punkt |-> TRUE, sklearn |-> TRUE]

\* No optional import succeeds.
EnvBare ==
    [spacy |-> FALSE, nltk |-> FALSE, model |-> FALSE, corpora |-> FALSE,
     punkt |-> FALSE, sklearn |-> FALSE]

\* The requirement models handed to the scorer: with and without keywords.
ScorerRequirements ==
    Requirements(PersonaBusiness, JobRevenue, EnvFull)
    \cup Requirements(PersonaPhD, JobLiteratureReview, EnvFull)
    \cup Requirements(PersonaEmpty, JobEmpty, EnvBare)

\* The scorer is constructed with or without the vector collaborator.
ScorerInit ==
    /\ ScoreIdle
    /\ SubIdle
    /\ MainIdle
    /\ HeaderIdle
    /\ ReqIdle
    /\ RefineIdle
    /\ AnalysisIdle
    /\ DocIdle
    /\ installed \in {EnvFull, EnvBare}
    /\ relevance_scorer = NewScorer(installed)
    /\ pc = "start"
    /\ run = 0
    /\ run_documents = <<>>
    /\ run_requirements = <<>>
    /\ fit_result = "none"
    /\ run_scored_sections = <<>>
    /\ run_top_sections = <<>>

\* The outcomes fit_transform can have on n section texts.
FitOutcomes(n) == {<<>>} \cup {<<sims>> : sims \in [1..n -> SimValues]}

\* self.relevance_scorer.prepare_scoring(docs, reqs), with every outcome the
\* vector collaborator can have when it is asked: it is asked only when it
\* exists and there are n > 0 section texts.
Prepare(docs, reqs) ==
    /\ \E n \in {Len(SectionTexts(docs))} :
          \E outcome \in (IF n = 0 \/ ~relevance_scorer.tfidf_vectorizer
                          THEN {<<>>} ELSE FitOutcomes(n)) :
             /\ relevance_scorer' =
                   prepare_scoring(relevance_scorer, docs, reqs, outcome)
             /\ fit_result' =
                   IF n = 0 THEN "no_sections"
                   ELSE IF ~relevance_scorer.tfidf_vectorizer THEN "unavailable"
                   ELSE IF outcome = <<>> THEN "failed"
                   ELSE "fitted"
    /\ run_documents' = docs
    /\ run_requirements' = reqs
    /\ pc' = "prepared"
    /\ run' = run + 1
    /\ run_scored_sections' = <<>>
    /\ run_top_sections' = <<>>
    /\ UNCHANGED <<installed, outsideScorer>>

\* A run starts: prepare_scoring on the kept scorer with new arguments.
PrepareScoring ==
    /\ pc \in {"start", "extracted"}
    /\ run < MaxRuns
    /\ \E docs \in ScorerDocuments, reqs \in ScorerRequirements :
          Prepare(docs, reqs)

\* scored_sections = self.relevance_scorer.calculate_relevance_scores(requirements)
CalculateRelevanceScores ==
    /\ pc = "prepared"
    /\ run_scored_sections' =
          calculate_relevance_scores(relevance_scorer, run_requirements)
    /\ pc' = "scored"
    /\ UNCHANGED <<installed, relevance_scorer, run, run_documents, run_requirements,
                   fit_result, run_top_sections>>
    /\ UNCHANGED outsideScorer

\* top_sections = self.relevance_scorer.extract_top_sections(scored_sections, top_n)
ExtractTopSections ==
    /\ pc = "scored"
    /\ \E top_n \in 0..MaxTopN :
          run_top_sections' =
             <<top_n, extract_top_sections(run_scored_sections, top_n)>>
    /\ pc' = "extracted"
    /\ UNCHANGED <<installed, relevance_scorer, run, run_documents, run_requirements,
                   fit_result, run_scored_sections>>
    /\ UNCHANGED outsideScorer

ScorerNext ==
    \/ PrepareScoring
    \/ CalculateRelevanceScores
    \/ ExtractTopSections

SpecScorer == ScorerInit /\ [][ScorerNext]_vars

(***************************************************************************)
(* The literature-review scenario: one document of three sections          *)
(***************************************************************************)

\* n copies of word, each followed by a blank.
Repeat(word, n) == [i \in 1..(n * (Len(word) + 1)) |->
                       IF i % (Len(word) + 1) = 0 THEN " "
                       ELSE word[i % (Len(word) + 1)]]

\* A content line: the leading words, then filler words up to n words in all.
ContentLine(leading, count, filler, n) ==
    LET text == leading \o <<" ">> \o Repeat(filler, n - count)
    IN  SubSeq(text, 1, Len(text) - 1)

\* A page of the three titled sections, one content line each.
ScenarioPage(intro, methodology, results) ==
    TitleIntroduction \o <<"\n">> \o intro \o <<"\n">>
    \o TitleMethodology \o <<"\n">> \o methodology \o <<"\n">>
    \o TitleResults \o <<"\n">> \o results \o <<"\n">>

\* "analysis" and 99 filler words.
LineAnalysis ==
    ContentLine(<<"a","n","a","l","y","s","i","s">>, 1, <<"a","b">>, 100)

\* "results" and 119 filler words.
LineResults ==
    ContentLine(<<"r","e","s","u","l","t","s">>, 1, <<"c","d">>, 120)

\* Five words of the job's vocabulary and 105 filler words.
LineSurvey ==
    ContentLine(<<"r","e","s","u","l","t","s"," ","l","i","t","e","r","a","t","u","r","e"," ","r","e","v","i","e","w"," ","m","e","t","h","o","d","o","l","o","g","y"," ","a","n","a","l","y","s","i","s">>,
                5, <<"e","f">>, 110)

\* The document of the scenario, in four variants of its contents.
ScenarioPdfs ==
    {Pdf("paper.pdf", <<ScenarioPage(LineAnalysis, LineAnalysis, LineAnalysis)>>),
     Pdf("paper.pdf", <<ScenarioPage(LineResults, LineResults, LineResults)>>),
     Pdf("paper.pdf", <<ScenarioPage(LineSurvey, LineAnalysis, LineAnalysis)>>),
     Pdf("paper.pdf", <<ScenarioPage(LineSurvey, LineResults, LineResults)>>)}

\* The scorers an earlier collection leaves behind: one prepare_scoring on a new
\* scorer, over documents of one or two sections.
EarlierScorers(e) ==
    UNION {{prepare_scoring(NewScorer(e), docs, reqs, outcome) :
               reqs \in Requirements(PersonaBusiness, JobRevenue, e),
               outcome \in IF e.sklearn
                            THEN FitOutcomes(Len(SectionTexts(docs)))
                            ELSE {<<>>}} :
           docs \in {process_documents(<<PdfOverview>>),
                     process_documents(<<PdfMethods>>)}}

\* The process starts on some installation, with a scorer that is new or was
\* used for an earlier collection.
ScenarioInit ==
    /\ ScoreIdle
    /\ SubIdle
    /\ MainIdle
    /\ HeaderIdle
    /\ ReqIdle
    /\ RefineIdle
    /\ AnalysisIdle
    /\ DocIdle
    /\ installed \in Envs
    /\ relevance_scorer \in {NewScorer(installed)} \cup EarlierScorers(installed)
    /\ pc = "start"
    /\ run = 0
    /\ run_documents = <<>>
    /\ run_requirements = <<>>
    /\ fit_result = "none"
    /\ run_scored_sections = <<>>
    /\ run_top_sections = <<>>

\* documents = self.document_processor.process_documents(pdf_paths)
ProcessDocuments ==
    /\ pc = "start"
    /\ \E pdf \in ScenarioPdfs : run_documents' = process_documents(<<pdf>>)
    /\ pc' = "processed"
    /\ UNCHANGED <<installed, relevance_scorer, run, run_requirements, fit_result,
                   run_scored_sections, run_top_sections>>
    /\ UNCHANGED outsideScorer

\* analyze_persona, analyze_job and combine_requirements on the scenario's texts
AnalyzeRequirements ==
    /\ pc = "processed"
    /\ run_requirements' \in
          Requirements(PersonaPhD, JobLiteratureReview, installed)
    /\ pc' = "analyzed"
    /\ UNCHANGED <<installed, relevance_scorer, run, run_documents, fit_result,
                   run_scored_sections, run_top_sections>>
    /\ UNCHANGED outsideScorer

\* self.relevance_scorer.prepare_scoring(documents, requirements)
ScenarioPrepare ==
    /\ pc = "analyzed"
    /\ Prepare(run_documents, run_requirements)

ScenarioNext ==
    \/ ProcessDocuments
    \/ AnalyzeRequirements
    \/ ScenarioPrepare
    \/ CalculateRelevanceScores

SpecScenario == ScenarioInit /\ [][ScenarioNext]_vars

(***************************************************************************)
(* subsection_analyzer.py: sentence tokenizers                             *)
(***************************************************************************)

\* The characters that end a sentence.
SentenceEnd == {".", "!", "?"}

\* re.split(r'[.!?]+', text): the pieces between the runs of sentence-ending
\* characters, the empty pieces at either end included.
RegexSentences(text) ==
    LET n == Len(text)
        run_starts == Ascending({i \in 1..n : /\ text[i] \in SentenceEnd
                                              /\ (i = 1 \/ text[i - 1] \notin SentenceEnd)},
                                1, n)
        run_ends == Ascending({i \in 1..n : /\ text[i] \in SentenceEnd
                                            /\ (i = n \/ text[i + 1] \notin SentenceEnd)},
                              1, n)
        runs == Len(run_starts)
    IN  [k \in 1..(runs + 1) |->
            SubSeq(text,
                   IF k = 1 THEN 1 ELSE run_ends[k - 1] + 1,
                   IF k = runs + 1 THEN n ELSE run_starts[k] - 1)]

\* nltk.tokenize.sent_tokenize with the punkt data: a sentence ends with a
\* sentence-ending character that is followed by whitespace or by the end of the
\* text; sentences keep their punctuation and lose the whitespace around them.
PunktSentences(text) ==
    LET n == Len(text)
        breaks == Ascending({i \in 1..n : /\ text[i] \in SentenceEnd
                                          /\ (i = n \/ IsSpace(text[i + 1]))},
                            1, n)
        count == Len(breaks)
        pieces == [k \in 1..(count + 1) |->
                     Strip(SubSeq(text,
                                  IF k = 1 THEN 1 ELSE breaks[k - 1] + 1,
                                  IF k = count + 1 THEN n ELSE breaks[k]))]
    IN  IF pieces[count + 1] = <<>> THEN SubSeq(pieces, 1, count) ELSE pieces

\* The tokenizer a call of self.sentence_tokenizer ends up with: NLTK's when
\* nltk imports and its punkt data is found; the regular expression when the
\* import failed or the call raised LookupError.
SentenceTokenizer(env) ==
    IF env.nltk /\ env.punkt THEN "punkt" ELSE "regex"

\* The sentences of text under a tokenizer.
Sentences(text, tokenizer) ==
    IF tokenizer = "punkt" THEN PunktSentences(text) ELSE RegexSentences(text)

(***************************************************************************)
(* SubSectionAnalyzer._group_sentences                                     *)
(***************************************************************************)

\* One pass of the loop of _group_sentences: loop is the record of groups,
\* current_group and current_word_count before the pass.
GroupStep(loop, raw_sentence, min_words, max_words) ==
    LET sentence == Strip(raw_sentence)
        sentence_words == WordCount(sentence)
    IN  IF Len(sentence) = 0 THEN loop
        ELSE IF loop.current_word_count + sentence_words <= max_words
        THEN [groups |-> loop.groups,
              current_group |-> Append(loop.current_group, sentence),
              current_word_count |-> loop.current_word_count + sentence_words]
        ELSE [groups |-> IF loop.current_word_count >= min_words
                         THEN Append(loop.groups, Join(<<" ">>, loop.current_group))
                         ELSE loop.groups,
              current_group |-> <<sentence>>,
              current_word_count |-> sentence_words]

RECURSIVE GroupRange(_, _, _, _, _, _)
\* The passes of the loop for the sentences lo..hi, in order: the first half is
\* evaluated before the second half starts (its word count is never negative).
GroupRange(sentences, lo, hi, loop, min_words, max_words) ==
    IF lo > hi THEN loop
    ELSE IF lo = hi THEN GroupStep(loop, sentences[lo], min_words, max_words)
    ELSE LET mid == (lo + hi) \div 2
             first_half == GroupRange(sentences, lo, mid, loop, min_words, max_words)
         IN  IF first_half.current_word_count >= 0
             THEN GroupRange(sentences, mid + 1, hi, first_half, min_words, max_words)
             ELSE first_half

_group_sentences(sentences, min_words, max_words) ==
    LET loop == GroupRange(sentences, 1, Len(sentences),
                           [groups |-> <<>>, current_group |-> <<>>,
                            current_word_count |-> 0],
                           min_words, max_words)
    IN  IF Len(loop.current_group) > 0 /\ loop.current_word_count >= min_words
        THEN Append(loop.groups, Join(<<" ">>, loop.current_group))
        ELSE loop.groups

(***************************************************************************)
(* SubSectionAnalyzer._extract_key_passages                                *)
(***************************************************************************)

\* sum(1 for keyword in keywords if keyword in sentence_lower)
SentenceScore(sentence, keywords) ==
    LET sentence_lower == Lower(sentence)
    IN  Cardinality({k \in keywords : InStr(k, sentence_lower)})

RECURSIVE TopScored(_, _, _)
\* The positions of the first `count` entries of sentence_scores after
\* sort(key=score, reverse=True): a stable sort, so among equal scores the
\* earlier sentence comes first.
TopScored(scores, chosen, count) ==
    LET rest == (1..Len(scores)) \ Range(chosen)
    IN  IF Len(chosen) >= count \/ rest = {} THEN chosen
        ELSE LET best == CHOOSE i \in rest : \A j \in rest :
                            \/ scores[j] < scores[i]
                            \/ (scores[j] = scores[i] /\ i <= j)
             IN  TopScored(scores, Append(chosen, best), count)

\* sentences.index(sentence), counted from 0.
IndexOf(sentences, sentence) ==
    (CHOOSE i \in 1..Len(sentences) :
        /\ sentences[i] = sentence
        /\ \A j \in 1..(i - 1) : sentences[j] # sentence) - 1

RECURSIVE PassagesFrom(_, _, _, _, _, _, _)
\* The loop over sentence_scores[:max_passages * 2] from its i-th entry (counted
\* from 0) on.  used_indices holds positions of the original list, and is
\* tested against the position i in the sorted list.
PassagesFrom(sentences, scores, order, i, passages, used_indices, max_passages) ==
    IF i >= Len(order) THEN passages
    ELSE LET sentence == sentences[order[i + 1]]
             score == scores[order[i + 1]]
         IN  IF i \in used_indices \/ score = 0
             THEN PassagesFrom(sentences, scores, order, i + 1, passages,
                               used_indices, max_passages)
             ELSE LET orig_index == IndexOf(sentences, sentence)
                      start_idx == IF orig_index - 1 > 0 THEN orig_index - 1 ELSE 0
                      end_idx == Min(Len(sentences), orig_index + 2)
                      passage == Join(<<" ">>, SubSeq(sentences, start_idx + 1, end_idx))
                      kept == WordCount(passage) >= 20
                      passages2 == IF kept THEN Append(passages, passage) ELSE passages
                      used2 == IF kept
                               THEN used_indices \cup (start_idx..(end_idx - 1))
                               ELSE used_indices
                  IN  IF Len(passages2) >= max_passages THEN passages2
                      ELSE PassagesFrom(sentences, scores, order, i + 1, passages2,
                                        used2, max_passages)

_extract_key_passages(content, requirements, max_passages, tokenizer) ==
    LET sentences == Sentences(content, tokenizer)
        keywords == requirements.all_keywords
        scores == [i \in 1..Len(sentences) |-> SentenceScore(sentences[i], keywords)]
        order == TopScored(scores, <<>>, max_passages * 2)
    IN  PassagesFrom(sentences, scores, order, 0, <<>>, {}, max_passages)

(***************************************************************************)
(* SubSectionAnalyzer._extract_subsections                                 *)
(***************************************************************************)

\* The number of line feeds that end right before position p.
NewlinesBefore(s, p) ==
    p - 1 - (CHOOSE q \in 0..(p - 1) :
                /\ (q = 0 \/ s[q] # "\n")
                /\ \A j \in (q + 1)..(p - 1) : s[j] = "\n")

\* content.split('\n\n'): the separators are taken from left to right, so a run
\* of line feeds is cut into pairs from its start.
SplitParagraphs(content) ==
    LET n == Len(content)
        seps == Ascending({p \in 1..(n - 1) :
                              /\ content[p] = "\n"
                              /\ content[p + 1] = "\n"
                              /\ NewlinesBefore(content, p) % 2 = 0},
                          1, n)
        count == Len(seps)
    IN  [k \in 1..(count + 1) |->
            SubSeq(content,
                   IF k = 1 THEN 1 ELSE seps[k - 1] + 2,
                   IF k = count + 1 THEN n ELSE seps[k] - 1)]

\* [p.strip() for p in content.split('\n\n') if p.strip()]
Paragraphs(content) ==
    LET pieces == SplitParagraphs(content)
        kept == Ascending({k \in 1..Len(pieces) : Strip(pieces[k]) # <<>>},
                          1, Len(pieces))
    IN  [k \in 1..Len(kept) |-> Strip(pieces[kept[k]])]

\* One extracted sub-section; the index counts from 0 as enumerate does.
Subsection(doc_name, parent_section, page_num, type, index, text, method) ==
    [document |-> doc_name,
     parent_section |-> parent_section,
     page_number |-> page_num,
     subsection_type |-> type,
     subsection_index |-> index,
     content |-> text,
     word_count |-> WordCount(text),
     extraction_method |-> method]

\* The dicts appended for those texts of a list that have at least min_words
\* words.
Candidates(texts, min_words, doc_name, parent_section, page_num, type, method) ==
    LET kept == Ascending({i \in 1..Len(texts) : WordCount(texts[i]) >= min_words},
                          1, Len(texts))
    IN  [k \in 1..Len(kept) |->
            Subsection(doc_name, parent_section, page_num, type, kept[k] - 1,
                       texts[kept[k]], method)]

\* The least number of words of a sub-section: `>= 20` in all three strategies.
MinSubsectionWords == 20

\* Strategy 3 is for contents of more than this many words.
DenseContentWords == 500

\* max_passages of the call in _extract_subsections.
MaxPassages == 3

\* Strategy 1 of _extract_subsections.
ParagraphCandidates(content, doc_name, parent_section, page_num) ==
    Candidates(Paragraphs(content), MinSubsectionWords, doc_name, parent_section,
               page_num, "paragraph", "paragraph_split")

\* Strategy 2 of _extract_subsections.
SentenceGroupCandidates(content, doc_name, parent_section, page_num, tokenizer) ==
    Candidates(_group_sentences(Sentences(content, tokenizer), 30, 150),
               MinSubsectionWords, doc_name, parent_section, page_num,
               "sentence_group", "sentence_grouping")

\* Strategy 3 of _extract_subsections: every passage is appended.
KeyPassageCandidates(content, doc_name, parent_section, page_num, requirements, tokenizer) ==
    Candidates(_extract_key_passages(content, requirements, MaxPassages, tokenizer),
               0, doc_name, parent_section, page_num,
               "key_passage", "key_phrase_extraction")

\* Sentence grouping only when the paragraph split gave nothing.
_extract_subsections_GroupIfNone(content, doc_name, parent_section, page_num, requirements, tokenizer) ==
    LET paragraphs == ParagraphCandidates(content, doc_name, parent_section, page_num)
        grouped == IF Len(paragraphs) < 1
                   THEN SentenceGroupCandidates(content, doc_name, parent_section,
                                                page_num, tokenizer)
                   ELSE <<>>
        passages == IF WordCount(content) > DenseContentWords
                    THEN KeyPassageCandidates(content, doc_name, parent_section,
                                              page_num, requirements, tokenizer)
                    ELSE <<>>
    IN  paragraphs \o grouped \o passages

_extract_subsections(content, doc_name, parent_section, page_num, requirements, tokenizer) ==
    LET paragraphs == ParagraphCandidates(content, doc_name, parent_section, page_num)
        grouped == IF Len(paragraphs) < 2
                   THEN SentenceGroupCandidates(content, doc_name, parent_section,
                                                page_num, tokenizer)
                   ELSE <<>>
        passages == IF WordCount(content) > DenseContentWords
                    THEN KeyPassageCandidates(content, doc_name, parent_section,
                                              page_num, requirements, tokenizer)
                    ELSE <<>>
    IN  paragraphs \o grouped \o passages

(***************************************************************************)
(* SubSectionAnalyzer._refine_text                                         *)
(***************************************************************************)

\* re.sub(r'\s+', ' ', text): every run of whitespace becomes one space.
CollapseWhitespace(text) ==
    LET words == Split(text)
    IN  IF Len(text) = 0 THEN <<>>
        ELSE IF Len(words) = 0 THEN <<" ">>
        ELSE (IF IsSpace(text[1]) THEN <<" ">> ELSE <<>>)
             \o Join(<<" ">>, words)
             \o (IF IsSpace(text[Len(text)]) THEN <<" ">> ELSE <<>>)

\* The sentences _refine_text keeps: those that end with a sentence-ending
\* character, and the others of more than 10 words.
CompleteSentences(sentences) ==
    LET stripped == [i \in 1..Len(sentences) |-> Strip(sentences[i])]
        kept == Ascending({i \in 1..Len(stripped) :
                              \/ (Len(stripped[i]) > 0
                                  /\ stripped[i][Len(stripped[i])] \in SentenceEnd)
                              \/ WordCount(stripped[i]) > 10},
                          1, Len(stripped))
    IN  [k \in 1..Len(kept) |-> stripped[kept[k]]]

\* The longest refined text, in words.
MaxRefinedWords == 200

_refine_text(text, tokenizer) ==
    LET collapsed == CollapseWhitespace(text)
        sentences == Sentences(collapsed, tokenizer)
        complete_sentences == IF Len(sentences) > 1
                              THEN CompleteSentences(sentences) ELSE <<>>
        refined == IF Len(complete_sentences) > 0
                   THEN Join(<<" ">>, complete_sentences) ELSE collapsed
        words == Split(refined)
    IN  Strip(IF Len(words) > MaxRefinedWords
              THEN Join(<<" ">>, SubSeq(words, 1, MaxRefinedWords)) \o <<".", ".", ".">>
              ELSE refined)

(***************************************************************************)
(* SubSectionAnalyzer._score_subsections                                   *)
(***************************************************************************)

\* min(content_lower.count(keyword), 3): count takes its matches from left to
\* right without overlap.
CappedCount(keyword, content_lower) ==
    LET matches == {p \in 1..Len(content_lower) : MatchAt(keyword, content_lower, p)}
        First(S) == CHOOSE p \in S : \A q \in S : p <= q
        after1 == IF matches = {} THEN {}
                  ELSE {p \in matches : p >= First(matches) + Len(keyword)}
        after2 == IF after1 = {} THEN {}
                  ELSE {p \in after1 : p >= First(after1) + Len(keyword)}
    IN  IF matches = {} THEN 0 ELSE IF after1 = {} THEN 1
        ELSE IF after2 = {} THEN 2 ELSE 3

\* weighted_keywords.get(keyword, 1.0), in tenths.
KeywordWeight(requirements, keyword) ==
    IF keyword \in DOMAIN requirements.weighted_keywords
    THEN requirements.weighted_keywords[keyword] ELSE 10

RECURSIVE BaseScore(_, _, _)
\* base_score of _score_subsections over a set of keywords, in tenths.
BaseScore(keywords, requirements, content_lower) ==
    IF keywords = {} THEN 0
    ELSE LET keyword == CHOOSE k \in keywords : TRUE
         IN  KeywordWeight(requirements, keyword) * CappedCount(keyword, content_lower)
             + BaseScore(keywords \ {keyword}, requirements, content_lower)

\* base_score / max(word_count / 100, 1).  Every weight is a multiple of 0.5,
\* so base_score, the sum of the contributions, is the float base_tenths / 10.
NormalizedScore(base_tenths, word_count) ==
    LET ratio == Div(Float(word_count), Hundred)
    IN  Div(Div(Float(base_tenths), Ten),
            IF Less(ratio, One) THEN One ELSE ratio)

\* "Bonus for optimal length"
SubsectionLengthBonus(r, word_count) ==
    IF 50 <= word_count /\ word_count <= 200 THEN Mul(r, Literal_1_2)
    ELSE IF \/ (30 <= word_count /\ word_count < 50)
            \/ (200 < word_count /\ word_count <= 300) THEN Mul(r, Literal_1_1)
    ELSE r

\* "Bonus for certain extraction methods"
MethodBonus(r, extraction_method) ==
    IF extraction_method = "key_phrase_extraction" THEN Mul(r, Literal_1_3)
    ELSE IF extraction_method = "paragraph_split" THEN Mul(r, Literal_1_1)
    ELSE r

\* final_score of one sub-section.
FinalScore(subsection, requirements) ==
    MethodBonus(
        SubsectionLengthBonus(
            NormalizedScore(BaseScore(requirements.all_keywords, requirements,
                                      Lower(subsection.content)),
                            subsection.word_count),
            subsection.word_count),
        subsection.extraction_method)

\* The sub-section after the scoring loop: relevance_score in ten-thousandths.
ScoredSubsection(subsection, requirements, tokenizer) ==
    [document |-> subsection.document,
     parent_section |-> subsection.parent_section,
     page_number |-> subsection.page_number,
     subsection_type |-> subsection.subsection_type,
     subsection_index |-> subsection.subsection_index,
     content |-> subsection.content,
     word_count |-> subsection.word_count,
     extraction_method |-> subsection.extraction_method,
     relevance_score |-> Round4(FinalScore(subsection, requirements)),
     refined_text |-> _refine_text(subsection.content, tokenizer)]

RECURSIVE SortedByRelevance(_, _)
\* subsections.sort(key=relevance_score, reverse=True) of the first n elements.
SortedByRelevance(subsections, n) ==
    IF n = 0 THEN <<>>
    ELSE LET before == SortedByRelevance(subsections, n - 1)
             x == subsections[n]
             keep == Cardinality({i \in 1..Len(before) :
                        before[i].relevance_score >= x.relevance_score})
         IN  SubSeq(before, 1, keep) \o <<x>> \o SubSeq(before, keep + 1, Len(before))

\* "Add ranks": enumerate(subsections, 1)
WithSubsectionRanks(subsections) ==
    [i \in 1..Len(subsections) |->
        [document |-> subsections[i].document,
         parent_section |-> subsections[i].parent_section,
         page_number |-> subsections[i].page_number,
         subsection_type |-> subsections[i].subsection_type,
         subsection_index |-> subsections[i].subsection_index,
         content |-> subsections[i].content,
         word_count |-> subsections[i].word_count,
         extraction_method |-> subsections[i].extraction_method,
         relevance_score |-> subsections[i].relevance_score,
         refined_text |-> subsections[i].refined_text,
         importance_rank |-> i]]

_score_subsections(subsections, requirements, tokenizer) ==
    LET scored == [i \in 1..Len(subsections) |->
                     ScoredSubsection(subsections[i], requirements, tokenizer)]
    IN  WithSubsectionRanks(SortedByRelevance(scored, Len(scored)))

(***************************************************************************)
(* SubSectionAnalyzer.analyze_subsections                                  *)
(***************************************************************************)

\* _find_section_content: the content of the first section of the document with
\* that title on that page, the empty string when there is none.
_find_section_content(documents, doc_name, section_title, page_num) ==
    IF ~\E d \in 1..Len(documents) : documents[d][1] = doc_name THEN <<>>
    ELSE LET doc_data == documents[CHOOSE d \in 1..Len(documents) :
                                      documents[d][1] = doc_name][2]
             hits == {s \in 1..Len(doc_data.sections) :
                         /\ doc_data.sections[s].title = section_title
                         /\ doc_data.sections[s].page_number = page_num}
         IN  IF hits = {} THEN <<>>
             ELSE doc_data.sections[CHOOSE s \in hits : \A t \in hits : s <= t].content

\* One more section than top_sections[:5] takes.
EligibleSections_Six == 5 + 1

\* Only this many of the top sections are analyzed: top_sections[:5].
EligibleSections == 5

RECURSIVE ExtractFrom(_, _, _, _, _)
\* The loop of analyze_subsections from the i-th eligible section on.
ExtractFrom(documents, top_sections, i, requirements, tokenizer) ==
    IF i > Min(Len(top_sections), EligibleSections) THEN <<>>
    ELSE LET section_info == top_sections[i]
             section_content ==
                 _find_section_content(documents, section_info.document,
                                       section_info.section_title,
                                       section_info.page_number)
         IN  (IF Len(section_content) > 0
              THEN _extract_subsections(section_content, section_info.document,
                                        section_info.section_title,
                                        section_info.page_number, requirements,
                                        tokenizer)
              ELSE <<>>)
             \o ExtractFrom(documents, top_sections, i + 1, requirements, tokenizer)

analyze_subsections(documents, top_sections, requirements, max_subsections, tokenizer) ==
    Take(_score_subsections(ExtractFrom(documents, top_sections, 1, requirements,
                                        tokenizer),
                            requirements, tokenizer),
         max_subsections)

(***************************************************************************)
(* Section contents handed to the sub-section analyzer                     *)
(***************************************************************************)

\* "the gene data set was read by our lab team."
SentencePlain ==
    <<"t","h","e"," ","g","e","n","e"," ","d","a","t","a"," ","s","e","t"," ",
      "w","a","s"," ","r","e","a","d"," ","b","y"," ","o","u","r"," ","l","a","b",
      " ","t","e","a","m",".">>

\* "these results support the methodology of the earlier review work."
SentenceKey ==
    <<"t","h","e","s","e"," ","r","e","s","u","l","t","s"," ","s","u","p","p","o",
      "r","t"," ","t","h","e"," ","m","e","t","h","o","d","o","l","o","g","y"," ",
      "o","f"," ","t","h","e"," ","e","a","r","l","i","e","r"," ","r","e","v","i",
      "e","w"," ","w","o","r","k",".">>

\* "the cells were grown overnight."
ShortPlain ==
    <<"t","h","e"," ","c","e","l","l","s"," ","w","e","r","e"," ","g","r","o","w",
      "n"," ","o","v","e","r","n","i","g","h","t",".">>

\* "the results were very good."
ShortKey ==
    <<"t","h","e"," ","r","e","s","u","l","t","s"," ","w","e","r","e"," ","v","e",
      "r","y"," ","g","o","o","d",".">>

\* A text without its last character (the blank Repeat ends with).
DropLast(text) == SubSeq(text, 1, Len(text) - 1)

\* 60 sentences of 10 words: 600 words, the 21st sentence has the keywords.
ContentProse ==
    DropLast(Repeat(SentencePlain, 20) \o Repeat(SentenceKey, 1)
             \o Repeat(SentencePlain, 39))

\* 120 sentences of 5 words: 600 words, the 61st sentence has a keyword.
ContentShortSentences ==
    DropLast(Repeat(ShortPlain, 60) \o Repeat(ShortKey, 1) \o Repeat(ShortPlain, 59))

\* 600 words without any punctuation, the first a keyword.
ContentUnpunctuated ==
    ContentLine(<<"r","e","s","u","l","t","s">>, 1, <<"a","b">>, 600)

\* 600 words none of which is a keyword.
ContentNoKeyword == DropLast(Repeat(SentencePlain, 60))

\* 600 words: a keyword, 19 filler words and 580 ellipses.
ContentEllipses ==
    DropLast(Repeat(<<"r","e","s","u","l","t","s">>, 1) \o Repeat(<<"a","b">>, 19)
             \o Repeat(<<".",".",".">>, 580))

\* 500 words: 50 sentences of 10 words, the first with the keywords.
ContentFiveHundred ==
    DropLast(Repeat(SentenceKey, 1) \o Repeat(SentencePlain, 49))

\* 600 words in two paragraphs of 300, a blank line between them.
ContentTwoParagraphs ==
    DropLast(Repeat(SentenceKey, 1) \o Repeat(SentencePlain, 29))
    \o <<"\n", "\n">>
    \o DropLast(Repeat(SentencePlain, 29) \o Repeat(SentenceKey, 1))

\* 40 words.
ContentBrief == DropLast(Repeat(SentenceKey, 2) \o Repeat(SentencePlain, 2))

\* 80 words in two paragraphs of 40.
ContentTwoBriefParagraphs == ContentBrief \o <<"\n", "\n">> \o ContentBrief

\* 45 words: a paragraph of 40 and one of 5.
ContentParagraphAndNote == ContentBrief \o <<"\n", "\n">> \o DropLast(Repeat(ShortKey, 1))

\* 600 words: the 21st and the 22nd sentence are the same keyword sentence.
ContentRepeatedKey ==
    DropLast(Repeat(SentencePlain, 20) \o Repeat(SentenceKey, 2)
             \o Repeat(SentencePlain, 38))

\* 605 words: the 21st and the 22nd sentence have keywords and differ.
ContentAdjacentKeys ==
    DropLast(Repeat(SentencePlain, 20) \o Repeat(SentenceKey, 1)
             \o Repeat(ShortKey, 1) \o Repeat(SentencePlain, 39))

\* 761 words in two paragraphs: "results methodology" and 489 filler words,
\* then "results" and 269 filler words.
ContentNearTie ==
    ContentLine(<<"r","e","s","u","l","t","s"," ","m","e","t","h","o","d","o","l","o","g","y">>,
                2, <<"a","b">>, 491)
    \o <<"\n", "\n">>
    \o ContentLine(<<"r","e","s","u","l","t","s">>, 1, <<"a","b">>, 270)

SubContents ==
    {ContentProse, ContentShortSentences, ContentUnpunctuated, ContentNoKeyword,
     ContentEllipses, ContentFiveHundred, ContentTwoParagraphs, ContentBrief,
     ContentTwoBriefParagraphs, ContentParagraphAndNote, ContentRepeatedKey,
     ContentAdjacentKeys, ContentNearTie}

\* "paper.pdf" is the document, "Results and Discussion" on page 1 the section.
SubRequirements(e) ==
    Requirements(PersonaPhD, JobLiteratureReview, e)
    \cup Requirements(PersonaAcademic, JobRevenue, e)

(***************************************************************************)
(* The sub-section analyzer on one section                                 *)
(***************************************************************************)

SubInit ==
    /\ installed \in Envs
    /\ sub_pc = "start"
    /\ sub_args \in [content : SubContents,
                     doc_name : {"paper.pdf"},
                     parent_section : {TitleResults},
                     page_num : {1},
                     requirements : SubRequirements(installed)]
    /\ sub_subsections = <<>>
    /\ sub_scored = <<>>
    /\ ScoreIdle
    /\ ScorerAbsent
    /\ MainIdle
    /\ HeaderIdle
    /\ ReqIdle
    /\ RefineIdle
    /\ AnalysisIdle
    /\ DocIdle

\* _extract_subsections on the section.
ExtractSubsections ==
    /\ sub_pc = "start"
    /\ sub_subsections' =
           _extract_subsections(sub_args.content, sub_args.doc_name,
                                sub_args.parent_section, sub_args.page_num,
                                sub_args.requirements, SentenceTokenizer(installed))
    /\ sub_pc' = "extracted"
    /\ UNCHANGED <<installed, sub_args, sub_scored>>
    /\ UNCHANGED outsideSub

\* _score_subsections on what was extracted: the list is scored and sorted in
\* place and returned.
ScoreSubsections ==
    /\ sub_pc = "extracted"
    /\ sub_scored' = _score_subsections(sub_subsections, sub_args.requirements,
                                        SentenceTokenizer(installed))
    /\ sub_subsections' = sub_scored'
    /\ sub_pc' = "scored"
    /\ UNCHANGED <<installed, sub_args>>
    /\ UNCHANGED outsideSub

SubNext == ExtractSubsections \/ ScoreSubsections

SpecSub == SubInit /\ [][SubNext]_vars

(***************************************************************************)
(* main.py: PersonaDrivenDocumentIntelligence                              *)
(*                                                                         *)
(* Of the four objects the orchestrator creates once, only the             *)
(* RelevanceScorer keeps state that a later call reads; the orchestrator   *)
(* is kept as that scorer.  A persona or job value of the input JSON is    *)
(* [kind, text]: kind "dict" with text <<>> (no 'role' / 'task' key) or    *)
(* <<t>>, or kind "other" for a value that is no JSON object.              *)
(***************************************************************************)

\* top_n of the call in process.
TopN == 10

\* max_subsections of the call in process.
MaxSubsections == 20

\* persona.get('role', '') and job.get('task', '')
TextOf(value) == IF value.text = <<>> THEN <<>> ELSE value.text[1]

\* _generate_output
_generate_output(documents, persona, job, top_sections, sub_sections) ==
    [metadata |->
        [input_documents |-> [d \in 1..Len(documents) |-> documents[d][1]],
         persona |-> TextOf(persona),
         job_to_be_done |-> TextOf(job)],
     extracted_sections |->
        [i \in 1..Len(top_sections) |->
            [document |-> top_sections[i].document,
             section_title |-> top_sections[i].section_title,
             importance_rank |-> top_sections[i].importance_rank,
             page_number |-> top_sections[i].page_number]],
     subsection_analysis |->
        [i \in 1..Len(sub_sections) |->
            [document |-> sub_sections[i].document,
             refined_text |-> sub_sections[i].refined_text,
             page_number |-> sub_sections[i].page_number]]]

\* The end of process: json.dump into the output file.  The scorer is the
\* prepared one; opening the file raises when it cannot be written.
SaveOutput(prepared, writable, output_data) ==
    IF ~writable
    THEN [scorer |-> prepared, status |-> "raised", output |-> <<>>]
    ELSE [scorer |-> prepared, status |-> "written", output |-> <<output_data>>]

\* Steps 4 and 5 of process and the save, from the top sections of step 3.
Step4To5(prepared, env, documents, persona, job, writable, requirements, top_sections) ==
    SaveOutput(prepared, writable,
               _generate_output(documents, persona, job, top_sections,
                                analyze_subsections(documents, top_sections,
                                                    requirements, MaxSubsections,
                                                    SentenceTokenizer(env))))

\* Step 3 of process after prepare_scoring, and the steps that follow it.
Step3To5(prepared, env, documents, persona, job, writable, requirements) ==
    Step4To5(prepared, env, documents, persona, job, writable, requirements,
             extract_top_sections(calculate_relevance_scores(prepared, requirements),
                                  TopN))

\* process from the documents of step 1 on: the early return when there are
\* none, persona.get / job.get raising on a value that is no JSON object, and
\* prepare_scoring with the steps that follow it.
Step2To5(scorer, env, documents, persona, job, writable, requirements, fit) ==
    IF Len(documents) = 0
    THEN [scorer |-> scorer, status |-> "no_documents", output |-> <<>>]
    ELSE IF persona.kind # "dict" \/ job.kind # "dict"
    THEN [scorer |-> scorer, status |-> "raised", output |-> <<>>]
    ELSE Step3To5(prepare_scoring(scorer, documents, requirements, fit), env,
                  documents, persona, job, writable, requirements)

\* process on the orchestrator whose scorer is `scorer`: the scorer afterwards,
\* how the call ended ("no_documents": the early return; "raised": with an
\* exception; "written": the output file was saved) and the output saved.
\* requirements is the model step 2 builds, fit the outcome of fit_transform.
process(scorer, env, pdfs, persona, job, writable, requirements, fit) ==
    Step2To5(scorer, env, process_documents(pdfs), persona, job, writable,
             requirements, fit)

(***************************************************************************)
(* Collection folders                                                      *)
(***************************************************************************)

\* A page with one section of 40 words under the header "Methodology".
PageLong == TitleMethodology \o <<"\n">> \o ContentBrief \o <<"\n">>

PdfLong == Pdf("long.pdf", <<PageLong>>)

\* A JSON object with the text under its key.
Dict(text) == [kind |-> "dict", text |-> <<text>>]

\* A folder: whether challenge1b_input.json and PDFs exist, what json.load
\* makes of the input ("invalid": it raises; "valid"), whether every entry of
\* "documents" has a "filename", the files named, the persona and the job, and
\* whether challenge1b_output.json can be written.
Collection(pdfs, persona, job) ==
    [has_input |-> TRUE, has_pdf_dir |-> TRUE, json |-> "valid",
     has_filenames |-> TRUE, pdfs |-> pdfs, persona |-> persona, job |-> job,
     writable |-> TRUE]

CollOverview == Collection(<<PdfOverview>>, Dict(PersonaPhD), Dict(JobLiteratureReview))

CollReport == Collection(<<PdfMethods, PdfLong>>, Dict(PersonaBusiness), Dict(JobRevenue))

CollUnreadable == Collection(<<PdfUnreadable>>, Dict(PersonaPhD), Dict(JobRevenue))

CollectionInputs ==
    {CollOverview, CollReport, CollUnreadable,
     [CollOverview EXCEPT !.has_input = FALSE],
     [CollReport EXCEPT !.has_pdf_dir = FALSE],
     [CollOverview EXCEPT !.json = "invalid"],
     [CollReport EXCEPT !.has_filenames = FALSE],
     [CollOverview EXCEPT !.persona = [kind |-> "other", text |-> <<>>]],
     [CollReport EXCEPT !.writable = FALSE]}

(***************************************************************************)
(* main(): the loop over the collection folders                            *)
(***************************************************************************)

\* The most collection folders under Challenge_1b.
MaxCollections == 2

\* The outcomes of fit_transform the loop is run with: it raises, or it finds
\* the first section half as similar to the requirements as the others.
MainFitOutcomes(n) ==
    {<<>>, << [i \in 1..n |-> IF i = 1 THEN Half ELSE One] >>}

\* Whether process asks the vector collaborator for the folder's documents.
AsksVectorizer(scorer, collection) ==
    /\ scorer.tfidf_vectorizer
    /\ collection.persona.kind = "dict"
    /\ collection.job.kind = "dict"
    /\ Len(SectionTexts(process_documents(collection.pdfs))) > 0

\* What the loop notes of a folder: how handling it ended, the requirement
\* model and the fit outcome process ran with, and the output it saved.
Handled(status, requirements, fit, output) ==
    [status |-> status, requirements |-> requirements, fit |-> fit,
     output |-> output]

MainInit ==
    /\ installed \in {EnvFull, EnvBare}
    /\ relevance_scorer = NewScorer(installed)
    /\ NoScorerRun
    /\ ScoreIdle
    /\ SubIdle
    /\ HeaderIdle
    /\ ReqIdle
    /\ RefineIdle
    /\ AnalysisIdle
    /\ DocIdle
    /\ collections \in UNION {[1..n -> CollectionInputs] : n \in 0..MaxCollections}
    /\ next_collection = 1
    /\ main_status = "running"
    /\ handled = <<>>

\* The folder the loop is at.
Current == collections[next_collection]

InLoop == main_status = "running" /\ next_collection <= Len(collections)

\* "Skipping.": the input file or the PDFs directory does not exist.
SkipCollection ==
    /\ InLoop
    /\ ~Current.has_input \/ ~Current.has_pdf_dir
    /\ handled' = Append(handled, Handled("skipped", <<>>, <<>>, <<>>))
    /\ next_collection' = next_collection + 1
    /\ UNCHANGED <<installed, relevance_scorer, collections, main_status>>
    /\ UNCHANGED outsideMain

\* json.load raises, or an entry of "documents" has no "filename": both happen
\* before the try statement, so the exception leaves main().
ReadInputFails ==
    /\ InLoop
    /\ Current.has_input /\ Current.has_pdf_dir
    /\ Current.json = "invalid" \/ ~Current.has_filenames
    /\ handled' = Append(handled, Handled("uncaught", <<>>, <<>>, <<>>))
    /\ main_status' = "crashed"
    /\ UNCHANGED <<installed, relevance_scorer, collections, next_collection>>
    /\ UNCHANGED outsideMain

\* The input was read: intelligence_system.process inside the try statement,
\* whose except clause prints the error and lets the loop go on.
ProcessCollection ==
    /\ InLoop
    /\ Current.has_input /\ Current.has_pdf_dir
    /\ Current.json = "valid" /\ Current.has_filenames
    /\ \E requirements \in Requirements(TextOf(Current.persona), TextOf(Current.job),
                                        installed),
          fit \in MainFitOutcomes(Len(SectionTexts(process_documents(Current.pdfs)))) :
          /\ ~AsksVectorizer(relevance_scorer, Current) => fit = <<>>
          /\ \E done \in {process(relevance_scorer, installed, Current.pdfs,
                                   Current.persona, Current.job, Current.writable,
                                   requirements, fit)} :
                 /\ relevance_scorer' = done.scorer
                 /\ handled' = Append(handled,
                                      Handled(done.status, <<requirements>>, fit,
                                              done.output))
    /\ next_collection' = next_collection + 1
    /\ UNCHANGED <<installed, collections, main_status>>
    /\ UNCHANGED outsideMain

\* The loop is over (or there was no folder): main() returns.
Return ==
    /\ main_status = "running"
    /\ next_collection > Len(collections)
    /\ main_status' = "returned"
    /\ UNCHANGED <<installed, relevance_scorer, collections, next_collection, handled>>
    /\ UNCHANGED outsideMain

MainNext == SkipCollection \/ ReadInputFails \/ ProcessCollection \/ Return

SpecMain == MainInit /\ [][MainNext]_vars

(***************************************************************************)
(* One call of _is_section_header, on lines built from a numbering prefix, *)
(* a body and surrounding whitespace                                       *)
(***************************************************************************)

PrefixNone == <<>>

PrefixNumber == <<"1","."," ">>

PrefixNumbers == <<"1","2",".">>

PrefixDecimal == <<"1",".","2"," ">>

PrefixRoman == <<"I","V","."," ">>

PrefixCapital == <<"B","."," ">>

PrefixSmall == <<"b","."," ">>

PrefixDigits == <<"1","2"," ">>

\* A capital outside A-Z before the period.
PrefixAccented == <<"É","."," ">>

BodyEmpty == <<>>

BodyIntroduction == <<"I","n","t","r","o","d","u","c","t","i","o","n">>

BodyUpperIntroduction == <<"I","N","T","R","O","D","U","C","T","I","O","N">>

BodyCat == <<"t","h","e"," ","c","a","t"," ","s","a","t">>

BodyUpper == <<"M","A","R","K","E","T"," ","D","A","T","A">>

BodyTitle == <<"T","h","e"," ","A","r","t"," ","o","f"," ","W","a","r">>

BodyKeyword == <<"p","l","a","i","n"," ","m","a","r","k","e","t"," ","r","e","S","U","L","T","s"," ","h","e","r","e">>

BodyPlain == <<"m","a","r","k","e","t"," ","d","a","t","a"," ","h","e","r","e">>

BodyTenUpper == <<"A"," ","B"," ","C"," ","D"," ","E"," ","F"," ","G"," ","H"," ","I"," ","J">>

BodyElevenUpper == <<"A"," ","B"," ","C"," ","D"," ","E"," ","F"," ","G"," ","H"," ","I"," ","J"," ","K">>

BodyEightTitle == <<"O","n","e"," ","T","w","o"," ","T","h","r","e","e"," ","F","o","u","r"," ","F","i","v","e"," ","S","i","x"," ","S","e","v","e","n"," ","E","i","g","h","t">>

BodyNineTitle == <<"O","n","e"," ","T","w","o"," ","T","h","r","e","e"," ","F","o","u","r"," ","F","i","v","e"," ","S","i","x"," ","S","e","v","e","n"," ","E","i","g","h","t"," ","N","i","n","e">>

BodyTwoSmall == <<"a","b">>

BodyTwoUpper == <<"A","B">>

BodyThreeUpper == <<"A","B","C">>

BodyMixed == <<"M","a","r","k","e","t"," ","d","a","t","a"," ","H","e","r","e">>

\* Title case whose first capital is outside A-Z.
BodyAccentedTitle == <<"É","l","a","n"," ","V","i","t","a","l">>

\* Upper case outside A-Z only.
BodyAccentedUpper == <<"É","É","É">>

\* Capitals and one lower-case letter outside a-z.
BodyAccentedSmall == <<"A","B","C"," ","é">>

\* Capitals and a lower-case letter that has no capital.
BodyEszett == <<"S","T","R","A","ß","E">>

\* A section keyword whose capitals lower() must fold, after capitals outside A-Z.
BodyAccentedKeyword == <<"é","c","o","l","e"," ","R","É","S","U","L","T","S"," ","l","à">>

\* Eleven upper-case words separated by no-break spaces and carriage returns.
BodyElevenNoBreak == <<"A"," ","B","\r","C"," ","D","\r","E"," ","F","\r","G"," ","H","\r","I"," ","J","","K">>

\* Nine capitalised words separated by form feeds.
BodyNineFormFeed == <<"O","n","e","\f","T","w","o","\f","T","h","r","e","e","\f","F","o","u","r","\f","F","i","v","e","\f","S","i","x","\f","S","e","v","e","n","\f","E","i","g","h","t","\f","N","i","n","e">>

\* n lower-case letters that are no word of any rule.
Filler(n) == [i \in 1..n |-> "x"]

\* Lines of exactly 200 and 201 characters that contain a section keyword.
BodyLong200 == <<"r","e","s","u","l","t","s"," ">> \o Filler(192)

BodyLong201 == <<"r","e","s","u","l","t","s"," ">> \o Filler(193)

HeaderPrefixes ==
    {PrefixNone, PrefixNumber, PrefixNumbers, PrefixDecimal, PrefixRoman, PrefixCapital, PrefixSmall, PrefixDigits,
     PrefixAccented}

HeaderBodies ==
    {BodyEmpty, BodyIntroduction, BodyUpperIntroduction, BodyCat,
     BodyUpper, BodyTitle, BodyKeyword, BodyPlain,
     BodyTenUpper, BodyElevenUpper, BodyEightTitle, BodyNineTitle,
     BodyTwoSmall, BodyTwoUpper, BodyThreeUpper, BodyMixed,
     BodyLong200, BodyLong201,
     BodyAccentedTitle, BodyAccentedUpper, BodyAccentedSmall, BodyEszett,
     BodyAccentedKeyword, BodyElevenNoBreak, BodyNineFormFeed}

\* The line as it stands, and with whitespace around it.
Padded(line) ==
    {line,
     <<" ", "\t">> \o line \o <<" ", " ">>,
     <<"\r"," ">> \o line \o <<"","\f","">>}

HeaderLines ==
    UNION {Padded(prefix \o body) : prefix \in HeaderPrefixes, body \in HeaderBodies}

HeaderInit ==
    /\ header_line \in HeaderLines
    /\ header_result = <<>>
    /\ ScoreIdle
    /\ ScorerIdle
    /\ SubIdle
    /\ MainIdle
    /\ DocIdle
    /\ ReqIdle
    /\ RefineIdle
    /\ AnalysisIdle

HeaderCall ==
    /\ header_result = <<>>
    /\ header_result' = << _is_section_header(header_line) >>
    /\ UNCHANGED header_line
    /\ UNCHANGED outsideHeader

HeaderNext == HeaderCall

SpecHeader == HeaderInit /\ [][HeaderNext]_vars

(***************************************************************************)
(* The document processor on one file, whose last page is built from a few *)
(* lines                                                                   *)
(***************************************************************************)

\* The most lines of the page that is built line by line.
MaxLines == 3

LineHeaderUpper == <<"I","N","T","R","O","D","U","C","T","I","O","N">>

LineHeaderNumbered == <<" ","1","."," ","I","n","t","r","o","d","u","c","t","i","o","n"," ">>

LineCat == <<"t","h","e"," ","c","a","t"," ","s","a","t">>

LinePadded == <<" "," ","m","a","r","k","e","t"," ","d","a","t","a"," ","h","e","r","e","\t">>

LineBlank == <<" "," ">>

\* A line of 201 characters with a section keyword: too long for a header.
LineLong == BodyLong201

SegLines == {LineHeaderUpper, LineHeaderNumbered, LineCat, LinePadded, LineBlank, LineLong}

\* The page texts of at most MaxLines lines.
SegPages ==
    {Join(<<"\n">>, lines) : lines \in UNION {[1..n -> SegLines] : n \in 0..MaxLines}}

\* Pages before the last one: one that ends inside a section with content, one
\* that ends on a header, and one without a header.
PageOpenHeader == <<"T","h","e"," ","c","a","t"," ","s","a","t","\n","R","E","S","U","L","T","S">>

FirstPages == {PageOverview, PageOpenHeader, PagePlain}

\* A header over two lines of 12 words each, with an empty line and a line
\* of blanks between them and an empty line after them.
PageBlankInside ==
    LineHeaderUpper \o <<"\n">>
    \o ContentLine(<<"m","a","r","k","e","t"," ","d","a","t","a">>, 2, <<"a","b">>, 12)
    \o <<"\n", "\n", " ", " ", "\n">>
    \o ContentLine(<<"r","e","v","e","n","u","e"," ","t","r","e","n","d","s">>, 2, <<"c","d">>, 12)
    \o <<"\n", "\n">>

\* A page whose lines end in carriage return and line feed: an upper-case
\* header, a line whose words other whitespace separates, a line of whitespace
\* alone, a header in capitals outside A-Z and one more line.
PageCarriageReturns ==
    <<"I","N","T","R","O","D","U","C","T","I","O","N","\r","\n","m","a","r","k","e","t"," ","d","a","t","a","\f","h","e","r","e","\r","\n",""," ","\r","\n","É","C","O","L","E"," ","N","O","R","M","A","L","E","\r","\n","r","e","v","e","n","u","e","","t","r","e","n","d","s","","r","i","s","e"," ","\r","\n">>

\* A header over one line of 30 words that is one sentence.
PageThirtyWords ==
    LineHeaderUpper \o <<"\n">>
    \o ContentLine(<<"m","a","r","k","e","t"," ","d","a","t","a">>, 2, <<"a","b">>, 30)
    \o <<".", "\n">>

\* A header over two lines of 100 words each, each line one sentence.
PageTwoHundredWords ==
    LineHeaderUpper \o <<"\n">>
    \o ContentLine(<<"m","a","r","k","e","t"," ","d","a","t","a">>, 2, <<"a","b">>, 100)
    \o <<".", "\n">>
    \o ContentLine(<<"r","e","v","e","n","u","e"," ","t","r","e","n","d","s">>, 2, <<"c","d">>, 100)
    \o <<".", "\n">>

\* A header over three lines that are one sentence of 16 words each, with a
\* line of blanks after the first.
PageThreeSentences ==
    LineHeaderUpper \o <<"\n">>
    \o ContentLine(<<"m","a","r","k","e","t"," ","d","a","t","a">>, 2, <<"a","b">>, 16)
    \o <<"!", "\n", " ", "\t", "\n">>
    \o ContentLine(<<"r","e","v","e","n","u","e"," ","t","r","e","n","d","s">>, 2, <<"c","d">>, 16)
    \o <<"?", "\n">>
    \o ContentLine(<<"c","o","s","t","s"," ","f","e","l","l">>, 2, <<"e","f">>, 16)
    \o <<".", "\n">>

\* Pages whose section is long enough for the sentence grouping to give groups.
GroupedPages == {PageThirtyWords, PageTwoHundredWords, PageThreeSentences}

SegPdfs ==
    {Pdf("pages.pdf", <<page>>) :
        page \in SegPages \cup {PageBlankInside, PageCarriageReturns} \cup GroupedPages}
    \cup {Pdf("pages.pdf", <<PageOpenHeader, page>>) : page \in GroupedPages}
    \cup {Pdf("pages.pdf", <<first, page>>) : first \in FirstPages, page \in SegPages}

SegInit ==
    /\ doc_pc = "start"
    /\ doc_pdfs \in {<<pdf>> : pdf \in SegPdfs}
    /\ doc_documents = <<>>
    /\ ScoreIdle
    /\ ScorerIdle
    /\ SubIdle
    /\ MainIdle
    /\ HeaderIdle
    /\ ReqIdle
    /\ RefineIdle
    /\ AnalysisIdle

\* document_processor.process_documents(pdf_paths)
CallProcessDocuments ==
    /\ doc_pc = "start"
    /\ doc_documents' = process_documents(doc_pdfs)
    /\ doc_pc' = "done"
    /\ UNCHANGED doc_pdfs
    /\ UNCHANGED outsideDoc

DocNext == CallProcessDocuments

SpecSegment == SegInit /\ [][DocNext]_vars

(***************************************************************************)
(* The document processor on a list of files, some of which fail           *)
(***************************************************************************)

\* The most files handed to process_documents.
MaxFiles == 3

\* A file without pages, and one whose only page has no text.
PdfNoPages == Pdf("nopages.pdf", <<>>)

PdfBlank == Pdf("blank.pdf", << <<>> >>)

DocFiles == {PdfOverview, PdfMethods, PdfUnreadable, PdfBrokenPage, PdfNoPages, PdfBlank}

DocsInit ==
    /\ doc_pc = "start"
    /\ doc_pdfs \in UNION {[1..n -> DocFiles] : n \in 0..MaxFiles}
    /\ doc_documents = <<>>
    /\ ScoreIdle
    /\ ScorerIdle
    /\ SubIdle
    /\ MainIdle
    /\ HeaderIdle
    /\ ReqIdle
    /\ RefineIdle
    /\ AnalysisIdle

SpecDocs == DocsInit /\ [][DocNext]_vars

(***************************************************************************)
(* Step 2 of process: analyze_persona, analyze_job and combine_requirements *)
(* on a persona text and a job text                                        *)
(***************************************************************************)

\* A job text of 17 words, 16 of them longer than 3 characters and no stop
\* word: "compare growth margin profit demand supply budget pricing customer product channel region quarter segment forecast with rivals"
JobLong ==
    <<"c","o","m","p","a","r","e"," ","g","r","o","w","t","h"," ","m","a","r","g","i","n"," ","p","r","o","f","i","t"," ","d","e","m","a","n","d"," ","s","u","p","p","l","y"," ","b","u","d","g","e","t"," ","p","r","i","c","i","n","g"," ","c","u","s","t","o","m","e","r"," ","p","r","o","d","u","c","t"," ","c","h","a","n","n","e","l"," ","r","e","g","i","o","n"," ","q","u","a","r","t","e","r"," ","s","e","g","m","e","n","t"," ","f","o","r","e","c","a","s","t"," ","w","i","t","h"," ","r","i","v","a","l","s">>

ReqJobTexts == JobTexts \cup {JobLong}

ReqInit ==
    /\ req_args \in [persona : PersonaTexts, job : ReqJobTexts, env : Envs]
    /\ req_built = <<>>
    /\ EarlierIdle
    /\ HeaderIdle
    /\ DocIdle
    /\ RefineIdle
    /\ AnalysisIdle

\* persona_analysis, job_analysis and requirements of step 2.
BuildRequirements ==
    /\ req_built = <<>>
    /\ \E job_analysis \in analyze_job(req_args.job, req_args.env) :
          req_built' =
              << [persona_analysis |-> analyze_persona(req_args.persona, req_args.env),
                  job_analysis |-> job_analysis,
                  requirements |->
                      combine_requirements(
                          analyze_persona(req_args.persona, req_args.env),
                          job_analysis)] >>
    /\ UNCHANGED req_args
    /\ UNCHANGED outsideReq

ReqNext == BuildRequirements

SpecRequirements == ReqInit /\ [][ReqNext]_vars
(***************************************************************************)
(* SpecAnalysis: one call of SubSectionAnalyzer.analyze_subsections on the *)
(* documents and the top sections the scorer ranked from them.             *)
(***************************************************************************)

\* The titles of the sections of the documents analyzed.
AnalysisTitles ==
    << <<"I","n","t","r","o","d","u","c","t","i","o","n">>,
       <<"M","e","t","h","o","d","o","l","o","g","y">>,
       <<"R","e","s","u","l","t","s">>,
       <<"D","i","s","c","u","s","s","i","o","n">>,
       <<"C","o","n","c","l","u","s","i","o","n">>,
       <<"S","u","m","m","a","r","y">>,
       <<"B","a","c","k","g","r","o","u","n","d">> >>

\* The first word of each section's content, which tells the contents apart.
AnalysisMarkers ==
    << <<"a","l","p","h","a">>,
       <<"b","r","a","v","o">>,
       <<"c","h","a","r","l","i","e">>,
       <<"d","e","l","t","a">>,
       <<"e","c","h","o">>,
       <<"f","o","x","t","r","o","t">>,
       <<"g","o","l","f">> >>

\* A content line of 30 words: the marker, "revenue growth" and filler words.
MarkedLine(marker) ==
    ContentLine(marker \o <<" ","r","e","v","e","n","u","e"," ","g","r","o","w","t","h">>, 3, <<"a","b">>, 30)

RECURSIVE TitledSections(_, _)
\* The text of a page with the first n titles, each over its marked line.
TitledSections(n, upto) ==
    IF n > upto THEN <<>>
    ELSE AnalysisTitles[n] \o <<"\n">> \o MarkedLine(AnalysisMarkers[n]) \o <<"\n">>
         \o TitledSections(n + 1, upto)

\* Seven sections on one page: more than analyze_subsections looks at.
PdfSeven == Pdf("seven.pdf", <<TitledSections(1, 7)>>)

\* Two sections titled "Introduction" on one page, with different contents.
PageTwice ==
    AnalysisTitles[1] \o <<"\n">> \o MarkedLine(AnalysisMarkers[1]) \o <<"\n">>
    \o AnalysisTitles[1] \o <<"\n">> \o MarkedLine(AnalysisMarkers[2]) \o <<"\n">>

PdfTwice == Pdf("twice.pdf", <<PageTwice>>)

\* Two sections titled "Introduction", one on each of two pages.
PdfTwoPages ==
    Pdf("pages.pdf",
        << AnalysisTitles[1] \o <<"\n">> \o MarkedLine(AnalysisMarkers[1]),
           AnalysisTitles[1] \o <<"\n">> \o MarkedLine(AnalysisMarkers[2]) >>)

\* The collections analyzed.
AnalysisPdfs ==
    {<<PdfSeven>>, <<PdfTwice>>, <<PdfTwoPages>>, <<PdfSeven, PdfTwice>>}

\* The largest small cap tried; the cap of process is tried as well.
MaxCap == 3

AnalysisCaps == 0..MaxCap \cup {MaxSubsections}

\* The top_n the top sections were extracted with: fewer than, one more than
\* and well above the sections analyze_subsections looks at.
AnalysisTopNs == {2, EligibleSections + 1, TopN}

\* What fit_transform gave the scorer: it raised, or it gave similarities
\* that rise, fall or stay level along the sections.
FitKinds == {"raises", "rising", "falling", "level"}

FitOutcome(kind, n) ==
    IF kind = "raises" THEN <<>>
    ELSE << [i \in 1..n |->
               IF kind = "rising" THEN Literal(i, 10)
               ELSE IF kind = "falling" THEN Literal(10 - i, 10)
               ELSE Half] >>

\* The sections calculate_relevance_scores ranks for the documents.
RankedSections(env, documents, requirements, kind) ==
    calculate_relevance_scores(
        prepare_scoring(NewScorer(env), documents, requirements,
                        FitOutcome(kind, Len(SectionTexts(documents)))),
        requirements)

\* The arguments of one call, with the ranking its top sections come from.
AnalysisCall(env, documents, requirements, scored_sections, top_n, cap) ==
    [documents |-> documents,
     scored_sections |-> scored_sections,
     top_sections |-> extract_top_sections(scored_sections, top_n),
     requirements |-> requirements,
     max_subsections |-> cap,
     tokenizer |-> SentenceTokenizer(env)]

AnalysisInit ==
    /\ EarlierIdle
    /\ HeaderIdle
    /\ DocIdle
    /\ ReqIdle
    /\ RefineIdle
    /\ \E pdfs \in AnalysisPdfs, env \in {EnvFull, EnvBare}, kind \in FitKinds,
          top_n \in AnalysisTopNs, cap \in AnalysisCaps :
          \E documents \in {process_documents(pdfs)} :
             \E requirements \in Requirements(PersonaBusiness, JobRevenue, env) :
                \E ranked \in {RankedSections(env, documents, requirements, kind)} :
                   analysis_args = << AnalysisCall(env, documents, requirements,
                                                   ranked, top_n, cap) >>
    /\ analysis_result = <<>>

\* analyze_subsections on the arguments.
AnalyzeSubsections ==
    /\ analysis_args # <<>>
    /\ analysis_result = <<>>
    /\ analysis_result' =
           << analyze_subsections(analysis_args[1].documents,
                                  analysis_args[1].top_sections,
                                  analysis_args[1].requirements,
                                  analysis_args[1].max_subsections,
                                  analysis_args[1].tokenizer) >>
    /\ UNCHANGED analysis_args
    /\ UNCHANGED outsideAnalysis

AnalysisNext == AnalyzeSubsections

SpecAnalysis == AnalysisInit /\ [][AnalysisNext]_vars

(***************************************************************************)
(* SpecRefine: _refine_text on a text, then on what it returned            *)
(***************************************************************************)

\* What a text starts with: plain words, a decimal number, a sentence and
\* the start of a second one, words with two blanks between them, words with
\* whitespace other than blanks between them, and two decimal numbers among
\* plain words.
LeadPlain ==
    [text |-> <<"m","a","r","k","e","t"," ","d","a","t","a">>, words |-> 2]

LeadDecimal ==
    [text |-> <<"v","e","r","s","i","o","n"," ","3",".","5">>, words |-> 2]

LeadTwoSentences ==
    [text |-> <<"m","a","r","k","e","t"," ","g","r","e","w","."," ","d","a","t",
                "a"," ","f","e","l","l">>,
     words |-> 4]

LeadTwoBlanks ==
    [text |-> <<"m","a","r","k","e","t"," "," ","d","a","t","a">>, words |-> 2]

\* Words that a no-break space, a carriage return with a line feed, and a
\* form feed separate.
LeadOtherWhitespace ==
    [text |-> <<"m","a","r","k","e","t"," ","d","a","t","a","\r","\n","f","e","l","l","\f">>, words |-> 3]

\* Two decimal numbers, each after 11 words: "ab" 11 times, "1.5", "ab" 11
\* times, "2.5".
LeadTwoDecimals ==
    [text |-> Repeat(<<"a","b">>, 11) \o <<"1",".","5"," ">>
              \o Repeat(<<"a","b">>, 11) \o <<"2",".","5">>,
     words |-> 24]

RefineLeads ==
    {LeadPlain, LeadDecimal, LeadTwoSentences, LeadTwoBlanks, LeadOtherWhitespace,
     LeadTwoDecimals}

\* How many words a text has: few, around the 10 words an unfinished
\* sentence needs to be kept, and around the longest refined text.
RefineLengths ==
    {4, 10, 11, 12, MaxRefinedWords - 1, MaxRefinedWords, MaxRefinedWords + 1}

\* What a text ends with.
RefineEndings == {<<>>, <<".">>, <<"!">>, <<"?">>, <<".",".",".">>}

\* The texts refined: the lead, filler words up to the length (none when the
\* lead is longer), and the ending.
RefineTexts ==
    {ContentLine(lead.text, lead.words, <<"a","b">>, n) \o ending :
        lead \in RefineLeads, n \in RefineLengths, ending \in RefineEndings}

RefineInit ==
    /\ EarlierIdle
    /\ HeaderIdle
    /\ DocIdle
    /\ ReqIdle
    /\ AnalysisIdle
    /\ refine_args \in [text : RefineTexts, tokenizer : {"punkt", "regex"}]
    /\ refine_result = <<>>

\* _refine_text on the text.
RefineText ==
    /\ refine_args # <<>>
    /\ refine_result = <<>>
    /\ refine_result' = << _refine_text(refine_args.text, refine_args.tokenizer) >>
    /\ UNCHANGED refine_args
    /\ UNCHANGED outsideRefine

\* _refine_text on what the first call returned.
RefineAgain ==
    /\ Len(refine_result) = 1
    /\ refine_result' =
           Append(refine_result,
                  _refine_text(refine_result[1], refine_args.tokenizer))
    /\ UNCHANGED refine_args
    /\ UNCHANGED outsideRefine

RefineNext == RefineText \/ RefineAgain

SpecRefine == RefineInit /\ [][RefineNext]_vars

(***************************************************************************)
(* Properties of the comprehensive score (checked under SpecScore)         *)
(***************************************************************************)

\* The length multiplier as the specification states it.
StatedLengthMultiplier(word_count) ==
    IF word_count \in 100..500 THEN Literal_1_1
    ELSE IF word_count \in 50..99 \/ word_count \in 501..1000 THEN Literal_1_05
    ELSE IF word_count < 50 THEN Literal_0_8
    ELSE One

\* The domain multiplier as the specification states it.
StatedDomainMultiplier(title, requirements) ==
    IF /\ requirements.domain_focus \in
             {"academic_research", "business_analysis", "education"}
       /\ \E i \in 1..5 :
             InStr(domain_bonus_terms[requirements.domain_focus][i], Lower(title))
    THEN Literal_1_15
    ELSE One

\* The number of all_keywords that are substrings of the lower-cased title.
StatedTitleMatches(title, requirements) ==
    Cardinality({k \in requirements.all_keywords : InStr(k, Lower(title))})

\* The title multiplier as the specification states it: 1 + 0.10 k.
StatedTitleMultiplier(k) == Add(One, Mul(Literal_0_1, Float(k)))

\* base x L x T x D in the arithmetic of the program.
StatedProduct(base, length, matches, domain) ==
    Mul(Mul(Mul(base, length), StatedTitleMultiplier(matches)), domain)

\* C2: comprehensive_score = base_similarity x L x T x D, with L the length
\* multiplier (1.10, 1.05, 0.80 or 1.00 by word count), T = 1 + 0.10 k for k title
\* keyword matches, and D = 1.15 when the title holds a term of the requirement
\* model's domain (academic_research, business_analysis, education), else 1.00.
C2_ScoreIsProductOfMultipliers ==
    score_result # <<>> =>
        LET m == score_args.section_metadata
            r == score_args.requirements
        IN  Eq(score_result[1],
               StatedProduct(score_args.base_score,
                             StatedLengthMultiplier(m.word_count),
                             StatedTitleMatches(m.title, r),
                             StatedDomainMultiplier(m.title, r)))

\* A scored section on which all three multipliers differ from 1.
C2_Witness ==
    /\ score_result # <<>>
    /\ score_args.base_score # Zero
    /\ score_args.section_metadata.word_count \in 100..500
    /\ StatedTitleMatches(score_args.section_metadata.title,
                          score_args.requirements) >= 2
    /\ StatedDomainMultiplier(score_args.section_metadata.title,
                              score_args.requirements) = Literal_1_15
    /\ ~Eq(score_result[1], score_args.base_score)

\* C7: for a fixed section and requirement model the comprehensive score is
\* monotonically non-decreasing in base_similarity: b1 <= b2 implies
\* score(b1) <= score(b2), for the base of the call against every other base.
C7_ScoreMonotoneInBase ==
    score_result # <<>> =>
        \A b \in BaseScores :
            LET other == _calculate_comprehensive_score(
                             b, score_args.section_metadata, score_args.requirements)
            IN  /\ Leq(score_args.base_score, b) => Leq(score_result[1], other)
                /\ Leq(b, score_args.base_score) => Leq(other, score_result[1])

\* A scored section with bonuses whose score is strictly below that of a larger base.
C7_Witness ==
    /\ score_result # <<>>
    /\ StatedTitleMatches(score_args.section_metadata.title,
                          score_args.requirements) >= 1
    /\ StatedDomainMultiplier(score_args.section_metadata.title,
                              score_args.requirements) = Literal_1_15
    /\ \E b \in BaseScores :
          /\ Less(score_args.base_score, b)
          /\ Less(score_result[1],
                  _calculate_comprehensive_score(
                         b, score_args.section_metadata, score_args.requirements))

\* C9: for every requirement model of combine_requirements, a section of fewer
\* than 50 words whose lower-cased title contains none of all_keywords scores
\* exactly base_similarity x 0.80: no title bonus and no domain bonus.
C9_ShortSectionNoTitleMatch ==
    ( /\ score_result # <<>>
      /\ score_args.section_metadata.word_count < 50
      /\ StatedTitleMatches(score_args.section_metadata.title,
                            score_args.requirements) = 0 )
    => Eq(score_result[1], Mul(score_args.base_score, Literal_0_8))

\* A 40-word section, no keyword in its title, under a domain that has a bonus.
C9_Witness ==
    /\ score_result # <<>>
    /\ score_args.section_metadata.word_count = 40
    /\ score_args.requirements.domain_focus = "academic_research"
    /\ score_args.requirements.all_keywords # {}
    /\ StatedTitleMatches(score_args.section_metadata.title,
                          score_args.requirements) = 0
    /\ score_args.base_score # Zero
    /\ Eq(score_result[1], Mul(score_args.base_score, Literal_0_8))

(***************************************************************************)
(* analyze_subsections                                                     *)
(***************************************************************************)

\* The top sections handed to the observed call and what it returned.
AnalyzedTop == analysis_args[1].top_sections

AnalyzedReturn == analysis_result[1]

\* The subsection comes from the i-th entry of the top sections.
FromEntry(subsection, i) ==
    /\ i <= Len(AnalyzedTop)
    /\ subsection.document = AnalyzedTop[i].document
    /\ subsection.parent_section = AnalyzedTop[i].section_title
    /\ subsection.page_number = AnalyzedTop[i].page_number

\* C15: analyze_subsections returns at most max_subsections subsections, each
\* with the document, parent section and page number of one of the first 5
\* entries of the top sections, and their importance ranks are 1, 2, ... up
\* to the length of the list.
C15_CappedFromFirstFiveRanked ==
    analysis_result # <<>> =>
        /\ Len(AnalyzedReturn) <= analysis_args[1].max_subsections
        /\ \A k \in 1..Len(AnalyzedReturn) :
              /\ AnalyzedReturn[k].importance_rank = k
              /\ \E i \in 1..5 : FromEntry(AnalyzedReturn[k], i)

\* A call with more than 5 top sections that returned as many subsections as
\* a positive cap allows.
C15_Witness ==
    /\ analysis_result # <<>>
    /\ Len(AnalyzedTop) > 5
    /\ analysis_args[1].max_subsections > 0
    /\ Len(AnalyzedReturn) = analysis_args[1].max_subsections

\* The content of the section ranked at position i of the scored sections.
RankedContent(i) ==
    SectionTexts(analysis_args[1].documents)
        [analysis_args[1].scored_sections[i].section_index + 1]

\* The content analyze_subsections fetches for the i-th top section.
RefetchedContent(i) ==
    _find_section_content(analysis_args[1].documents, AnalyzedTop[i].document,
                          AnalyzedTop[i].section_title, AnalyzedTop[i].page_number)

\* C16: for each of the first 5 top sections, the content fetched by document,
\* title and page number is the content of the section ranked at that
\* position, also when sections share a title on one page.
C16_RefetchedIsRankedContent ==
    analysis_result # <<>> =>
        \A i \in 1..5 : i <= Len(AnalyzedTop) => RefetchedContent(i) = RankedContent(i)

(***************************************************************************)
(* _refine_text                                                            *)
(***************************************************************************)

\* Clean text: no whitespace at either end, single blanks between the words.
StatedClean(text) ==
    /\ Len(text) > 0
    /\ \A i \in 1..Len(text) :
          IsSpace(text[i]) =>
              /\ text[i] = " "
              /\ 1 < i /\ i < Len(text)
              /\ ~IsSpace(text[i + 1])

\* One sentence: no sentence-ending character is followed by more text after
\* whitespace.
StatedSingleSentence(text) ==
    \A i \in 1..(Len(text) - 1) :
        text[i] \in {".", "!", "?"} => ~IsSpace(text[i + 1])

\* C18: refining a clean single sentence of fewer than 200 words twice gives
\* what refining it once gives, under the sentence tokenizer and under the
\* regular-expression splitter.
C18_RefineIdempotent ==
    (/\ Len(refine_result) = 2
     /\ StatedClean(refine_args.text)
     /\ StatedSingleSentence(refine_args.text)
     /\ WordCount(refine_args.text) < 200)
    => refine_result[2] = refine_result[1]

(***************************************************************************)
(* _extract_subsections: which strategies run                              *)
(***************************************************************************)

\* The candidates of one type among the extracted ones, in their order.
OfType(type) ==
    LET IsOfType(subsection) == subsection.subsection_type = type
    IN  SelectSeq(sub_subsections, IsOfType)

\* What the sentence grouping gives for the observed section.
StatedSentenceGroups ==
    SentenceGroupCandidates(sub_args.content, sub_args.doc_name,
                            sub_args.parent_section, sub_args.page_num,
                            SentenceTokenizer(installed))

\* What the key-passage extraction gives for the observed section.
StatedKeyPassages ==
    KeyPassageCandidates(sub_args.content, sub_args.doc_name,
                         sub_args.parent_section, sub_args.page_num,
                         sub_args.requirements, SentenceTokenizer(installed))

\* C20: the extracted candidates are those of the paragraph split, then those
\* of the sentence grouping if and only if the paragraph split gave fewer
\* than 2, then those of the key-passage extraction if and only if the
\* content has more than 500 words, however many candidates came before.
C20_StrategiesRunAndPool ==
    sub_pc = "extracted" =>
        /\ OfType("paragraph") =
               ParagraphCandidates(sub_args.content, sub_args.doc_name,
                                   sub_args.parent_section, sub_args.page_num)
        /\ OfType("sentence_group") =
               (IF Len(OfType("paragraph")) < 2 THEN StatedSentenceGroups ELSE <<>>)
        /\ OfType("key_passage") =
               (IF WordCount(sub_args.content) > 500 THEN StatedKeyPassages ELSE <<>>)
        /\ sub_subsections =
               OfType("paragraph") \o OfType("sentence_group") \o OfType("key_passage")

\* A section of more than 500 words in two paragraphs: the sentence grouping,
\* which would have given candidates, did not run and the key-passage
\* extraction did.
C20_Witness ==
    /\ sub_pc = "extracted"
    /\ Len(OfType("paragraph")) = 2
    /\ StatedSentenceGroups # <<>>
    /\ OfType("sentence_group") = <<>>
    /\ WordCount(sub_args.content) > 500
    /\ OfType("key_passage") # <<>>

(***************************************************************************)
(* _extract_key_passages                                                   *)
(***************************************************************************)

\* The sentences of the observed section, in their original order.
ObservedSentences == Sentences(sub_args.content, SentenceTokenizer(installed))

\* The passages among the extracted candidates.
ObservedPassages ==
    [k \in 1..Len(OfType("key_passage")) |-> OfType("key_passage")[k].content]

\* The original positions i-1..i+1 around position i, clamped to the list.
StatedWindow(i) ==
    {j \in 1..Len(ObservedSentences) : i - 1 <= j /\ j <= i + 1}

\* The sentences of the window around position i, joined by blanks.
StatedPassage(i) ==
    Join(<<" ">>, [k \in 1..Cardinality(StatedWindow(i)) |->
                      ObservedSentences[k + (IF i = 1 THEN 0 ELSE i - 2)]])

\* The original positions of the sentences with a keyword.
ScoringPositions ==
    {i \in 1..Len(ObservedSentences) :
        SentenceScore(ObservedSentences[i], sub_args.requirements.all_keywords) > 0}

\* C21: at most 3 passages are returned, each of at least 20 words and each
\* the window around a sentence that has a keyword, and no passage is
\* centred on a sentence whose original position lies in the window of a
\* passage collected before it, also when a sentence text occurs twice.
C21_PassagesAroundFreshCentres ==
    sub_pc = "extracted" =>
        /\ Len(ObservedPassages) <= 3
        /\ \A k \in 1..Len(ObservedPassages) : WordCount(ObservedPassages[k]) >= 20
        /\ \E centre \in [1..Len(ObservedPassages) -> ScoringPositions] :
              \A k \in 1..Len(ObservedPassages) :
                  /\ StatedPassage(centre[k]) = ObservedPassages[k]
                  /\ \A j \in 1..(k - 1) : centre[k] \notin StatedWindow(centre[j])

(***************************************************************************)
(* _score_subsections: the order of the ranked candidates                  *)
(***************************************************************************)

\* The candidates of the observed section as they were pooled.
PooledCandidates ==
    _extract_subsections(sub_args.content, sub_args.doc_name,
                         sub_args.parent_section, sub_args.page_num,
                         sub_args.requirements, SentenceTokenizer(installed))

\* The final scores of the pooled candidates, not rounded.
PooledFinalScores(pooled) ==
    [p \in 1..Len(pooled) |-> FinalScore(pooled[p], sub_args.requirements)]

\* Where the i-th ranked candidate stood among the pooled ones.
PooledPosition(pooled, i) ==
    CHOOSE p \in 1..Len(pooled) :
        /\ pooled[p].subsection_type = sub_scored[i].subsection_type
        /\ pooled[p].subsection_index = sub_scored[i].subsection_index

\* The ranked list holds every pooled candidate once; origin[i] is the pooled
\* position of the i-th ranked candidate.
IsRearrangement(pooled, origin) ==
    /\ Len(sub_scored) = Len(pooled)
    /\ \A p \in 1..Len(pooled) : \E i \in 1..Len(origin) : origin[i] = p
    /\ \A i \in 1..Len(origin) : sub_scored[i].content = pooled[origin[i]].content

\* The scores fall along the ranked list, and equal scores keep their pooled
\* order.
StablyDescending(scores, origin) ==
    \A i, j \in 1..Len(origin) :
        i < j =>
            /\ ~Less(scores[origin[i]], scores[origin[j]])
            /\ Eq(scores[origin[i]], scores[origin[j]]) => origin[i] < origin[j]

\* C22: _score_subsections returns the pooled candidates stably sorted by
\* their final score descending: none with a strictly higher final score
\* stands below one with a strictly lower final score, and candidates with
\* equal final scores keep their pooled order.
C22_StablySortedByFinalScore ==
    sub_pc = "scored" =>
        \E pooled \in {PooledCandidates} :
            \E scores \in {PooledFinalScores(pooled)},
               origin \in {[i \in 1..Len(sub_scored) |-> PooledPosition(pooled, i)]} :
                /\ IsRearrangement(pooled, origin)
                /\ StablyDescending(scores, origin)

(***************************************************************************)
(* Claims about the scorer object                                          *)
(***************************************************************************)

\* The sections handed to the scorer in the current run, as enumerated.
InputSections == CollectSections(run_documents, 1)

\* out holds exactly the sections of input, by descending score, ties in the
\* order of enumeration, each ranked by its position.
IsStableRanking(out, input) ==
    /\ Len(out) = Len(input)
    /\ \A k \in 1..Len(input) :
          \E i \in 1..Len(out) :
             /\ out[i].section_index = k - 1
             /\ out[i].document = input[k].document
             /\ out[i].title = input[k].section.title
             /\ out[i].page_number = input[k].section.page_number
    /\ \A i \in 1..Len(out) : out[i].importance_rank = i
    /\ \A i, j \in 1..Len(out) :
          i < j => /\ Leq(out[j].comprehensive_score, out[i].comprehensive_score)
                   /\ Eq(out[i].comprehensive_score, out[j].comprehensive_score)
                         => out[i].section_index < out[j].section_index

\* C1: whatever sections a run hands to the scorer, the list
\* calculate_relevance_scores returns is exactly those sections sorted stably
\* by comprehensive_score descending, with importance_rank the 1-based position.
C1_ScoredListIsStableRanking ==
    pc = "scored" => IsStableRanking(run_scored_sections, InputSections)

\* The fallback formula as stated: the number of keywords that are substrings of
\* the lower-cased content, divided by max(word_count / 100, 1).
StatedFallbackBase(section, keywords) ==
    LET matches == Cardinality({k \in keywords : InStr(k, Lower(section.content))})
        ratio == Div(Float(section.word_count), Hundred)
    IN  Div(Float(matches), IF Less(One, ratio) THEN ratio ELSE One)

\* C3: when the vector collaborator is unavailable, or vector-space construction
\* failed in the run's prepare_scoring, the following calculate_relevance_scores
\* gives every section of the run the fallback base_similarity.
C3_FallbackWhenConstructionFails ==
    pc = "scored" /\ fit_result \in {"unavailable", "failed"} =>
        /\ Len(run_scored_sections) = Len(InputSections)
        /\ \A i \in 1..Len(run_scored_sections) :
              LET s == run_scored_sections[i]
              IN  /\ s.section_index + 1 \in 1..Len(InputSections)
                  /\ Eq(s.base_similarity,
                        StatedFallbackBase(InputSections[s.section_index + 1].section,
                                              run_requirements.all_keywords))

\* C6: extract_top_sections on a ranked list of M sections with top_n >= 0
\* returns the first min(top_n, M) ranked sections in order, whose
\* importance_rank values are 1..min(top_n, M).
C6_TopSectionsArePrefix ==
    pc = "extracted" =>
        LET top_n == run_top_sections[1]
            top == run_top_sections[2]
            M == Len(run_scored_sections)
            m == IF top_n < M THEN top_n ELSE M
        IN  /\ Len(top) = m
            /\ \A i \in 1..m :
                  /\ top[i].importance_rank = i
                  /\ top[i].document = run_scored_sections[i].document
                  /\ top[i].section_title = run_scored_sections[i].title
                  /\ top[i].page_number = run_scored_sections[i].page_number

\* A ranked list of three sections was cut to its first two.
C6_Witness ==
    /\ pc = "extracted"
    /\ Len(run_scored_sections) = 3
    /\ run_top_sections[1] = 2
    /\ Len(run_top_sections[2]) = 2

(***************************************************************************)
(* The literature-review scenario (checked under SpecScenario)             *)
(***************************************************************************)

\* A section with the given title is in the scored list.
IsScored(title) ==
    \E i \in 1..Len(run_scored_sections) : run_scored_sections[i].title = title

\* The scored section with the given title, in a list where titles are unique.
ScoredWithTitle(title) ==
    run_scored_sections[CHOOSE i \in 1..Len(run_scored_sections) :
                           run_scored_sections[i].title = title]

\* The scenario's document was scored: three sections titled Introduction,
\* Methodology, Results and Discussion in that order, each of at least 100 words
\* and containing "analysis" or "results".
ScenarioScored ==
    /\ pc = "scored"
    /\ Len(InputSections) = 3
    /\ InputSections[1].section.title = TitleIntroduction
    /\ InputSections[2].section.title = TitleMethodology
    /\ InputSections[3].section.title = TitleResults
    /\ \A i \in 1..3 :
          /\ InputSections[i].section.word_count >= 100
          /\ \/ InStr(<<"a","n","a","l","y","s","i","s">>,
                      InputSections[i].section.content)
             \/ InStr(<<"r","e","s","u","l","t","s">>,
                      InputSections[i].section.content)

\* title is ranked above "Introduction".
RankedAboveIntroduction(title) ==
    /\ IsScored(title)
    /\ IsScored(TitleIntroduction)
    /\ ScoredWithTitle(title).importance_rank
          < ScoredWithTitle(TitleIntroduction).importance_rank

\* The section's score carries the x1.15 domain bonus on top of L and T.
HasDomainBonus(s) ==
    Eq(s.comprehensive_score,
       StatedProduct(s.base_similarity, StatedLengthMultiplier(s.word_count),
                     StatedTitleMatches(s.title, run_requirements), Literal_1_15))

\* The section's score is base_similarity x L x T, without a domain bonus.
HasNoDomainBonus(s) ==
    Eq(s.comprehensive_score,
       StatedProduct(s.base_similarity, StatedLengthMultiplier(s.word_count),
                     StatedTitleMatches(s.title, run_requirements), One))

\* C8 as stated: in the scenario the requirement model's domain_focus is
\* academic_research, "Methodology" and "Results and Discussion" receive the
\* x1.15 academic-domain title bonus, and both are ranked above "Introduction".
C8_AcademicBonusRanksAboveIntroduction ==
    ScenarioScored =>
        /\ run_requirements.domain_focus = "academic_research"
        /\ \A title \in {TitleMethodology, TitleResults} :
              /\ IsScored(title)
              /\ HasDomainBonus(ScoredWithTitle(title))
              /\ RankedAboveIntroduction(title)

\* C8 amended: in the scenario the persona text holds one academic keyword
\* ("research"), below the threshold of two, so domain_focus is empty and no
\* section receives the x1.15 bonus: every scored section's score is
\* base_similarity x L x T.  Where "Introduction" and "Methodology" (or "Results
\* and Discussion") are both in the scored list, the latter is ranked above
\* "Introduction" exactly when its score is strictly greater.
C8_NoDomainBonusInScenario ==
    ScenarioScored =>
        /\ run_requirements.domain_focus = ""
        /\ \A i \in 1..Len(run_scored_sections) :
              /\ HasNoDomainBonus(run_scored_sections[i])
              /\ "Domain relevance" \notin Range(run_scored_sections[i].relevance_factors)
        /\ \A title \in {TitleMethodology, TitleResults} :
              IsScored(title) /\ IsScored(TitleIntroduction) =>
                 (RankedAboveIntroduction(title)
                  <=> Less(ScoredWithTitle(TitleIntroduction).comprehensive_score,
                           ScoredWithTitle(title).comprehensive_score))

\* The scenario was scored by keyword matching, with keywords that match the
\* titles "Methodology" and "Results and Discussion", both scored above zero,
\* and "Introduction" is first.
C8_Witness ==
    /\ ScenarioScored
    /\ fit_result = "unavailable"
    /\ Len(run_scored_sections) = 3
    /\ StatedTitleMatches(TitleMethodology, run_requirements) >= 1
    /\ StatedTitleMatches(TitleResults, run_requirements) >= 1
    /\ ScoredWithTitle(TitleMethodology).comprehensive_score # Zero
    /\ ScoredWithTitle(TitleResults).comprehensive_score # Zero
    /\ ScoredWithTitle(TitleIntroduction).importance_rank = 1

(***************************************************************************)
(* C10: the 600-word section                                               *)
(***************************************************************************)

\* The sub-section analyzer has extracted from a content of 600 words without a
\* blank line, one of whose sentences matches a keyword.
LongSectionExtracted ==
    /\ sub_pc \in {"extracted", "scored"}
    /\ WordCount(sub_args.content) = 600
    /\ ~InStr(<<"\n", "\n">>, sub_args.content)
    /\ LET sentences == Sentences(sub_args.content, SentenceTokenizer(installed))
       IN  \E i \in 1..Len(sentences) :
              SentenceScore(sentences[i], sub_args.requirements.all_keywords) > 0

\* Some extracted sub-section carries the tag.
HasMethod(method) ==
    \E i \in 1..Len(sub_subsections) : sub_subsections[i].extraction_method = method

\* The score the claim states for a key passage: the normalized keyword score
\* with its length bonus, times 1.3, rounded to four decimals.
StatedKeyPassageScore(subsection) ==
    Round4(Mul(SubsectionLengthBonus(
                   NormalizedScore(BaseScore(sub_args.requirements.all_keywords,
                                             sub_args.requirements,
                                             Lower(subsection.content)),
                                   subsection.word_count),
                   subsection.word_count),
               Literal_1_3))

\* Every scored sub-section with the tag has the stated key-passage score.
TaggedGetBonus(method) ==
    sub_pc = "scored" =>
        \A i \in 1..Len(sub_scored) :
            sub_scored[i].extraction_method = method =>
                sub_scored[i].relevance_score = StatedKeyPassageScore(sub_scored[i])

\* C10 as stated: a 600-word section without blank lines, a sentence of which
\* matches a keyword, yields sub-sections tagged sentence_grouping and
\* sub-sections tagged key_passage_extraction, and the latter get the x1.3 bonus.
C10_BothTagsKeyPassageExtraction ==
    LongSectionExtracted =>
        /\ HasMethod("sentence_grouping")
        /\ HasMethod("key_passage_extraction")
        /\ TaggedGetBonus("key_passage_extraction")

(***************************************************************************)
(* C4, C5: the loop over the collections (checked under SpecMain)          *)
(***************************************************************************)

\* What a new orchestrator makes of the k-th folder alone, with the requirement
\* model and the fit outcome the loop ran with.
ProcessedAlone(k) ==
    process(NewScorer(installed), installed, collections[k].pdfs,
            collections[k].persona, collections[k].job, collections[k].writable,
            handled[k].requirements[1], handled[k].fit)

\* C4: the output of every collection the orchestrator processed is the output
\* a new orchestrator produces for that collection alone: nothing an earlier
\* collection wrote is read.
C4_CollectionsIndependent ==
    \A k \in 1..Len(handled) :
        handled[k].requirements # <<>> =>
            /\ handled[k].status = ProcessedAlone(k).status
            /\ handled[k].output = ProcessedAlone(k).output

\* C5: no failure on a collection ends the loop: no exception leaves main(), and
\* main() returns only after the loop has reached every collection.
C5_FailureNeverEndsLoop ==
    /\ main_status # "crashed"
    /\ main_status = "returned" => Len(handled) = Len(collections)

(***************************************************************************)
(* Header classification                                                   *)
(***************************************************************************)

\* The position of the first character of t that is not in chars (0: none).
FirstOutside(t, chars) ==
    IF \A i \in 1..Len(t) : t[i] \in chars THEN 0
    ELSE CHOOSE i \in 1..Len(t) : t[i] \notin chars /\ \A j \in 1..(i - 1) : t[j] \in chars

\* Rule 1: a run of digits, then a period.
StatedNumberedPrefix(t) ==
    FirstOutside(t, DigitSet) > 1 /\ t[FirstOutside(t, DigitSet)] = "."

\* Rule 2: a run of the letters I, V, X, or one capital letter, then a period.
StatedLetteredPrefix(t) ==
    \/ FirstOutside(t, {"I", "V", "X"}) > 1 /\ t[FirstOutside(t, {"I", "V", "X"})] = "."
    \/ FirstOutside(t, AsciiCapitals) >= 2 /\ t[2] = "."

\* Rule 3: entirely upper-case (some letter, none of them lower-case) and at
\* most 10 words.
StatedAllUpper(t) ==
    /\ Range(t) \cap LowerSet = {}
    /\ Range(t) \cap UpperSet # {}
    /\ Len(Split(t)) <= 10

StatedMinorWords ==
    {<<"a">>, <<"a","n">>, <<"t","h","e">>, <<"o","f">>, <<"i","n">>, <<"o","n">>, <<"f","o","r">>, <<"w","i","t","h">>}

\* Rule 4: at most 8 words, each capitalised or a minor word.
StatedTitleCase(t) ==
    /\ Len(Split(t)) <= 8
    /\ \A word \in Range(Split(t)) :
          word[1] \in UpperSet \/ Lower(word) \in StatedMinorWords

\* Rule 5: a section-name keyword occurs in the line, whatever its case.
StatedKeyword(t) == \E keyword \in Range(section_keywords) : InStr(keyword, Lower(t))

\* The classification the rules give for a line, from its trimmed text alone.
StatedHeader(line) ==
    /\ Len(Strip(line)) >= 3
    /\ Len(Strip(line)) <= 200
    /\ \/ StatedNumberedPrefix(Strip(line))
       \/ StatedLetteredPrefix(Strip(line))
       \/ StatedAllUpper(Strip(line))
       \/ StatedTitleCase(Strip(line))
       \/ StatedKeyword(Strip(line))

\* C12: a line is a header exactly when its trimmed text has 3 to 200
\* characters and one of the five rules holds; "INTRODUCTION" and
\* "1. Introduction" are headers, "the cat sat" is not, and no line shorter
\* than 3 or longer than 200 characters is a header.
C12_HeaderIffRules ==
    header_result # <<>> =>
        /\ header_result[1] = StatedHeader(header_line)
        /\ header_result[1] = _is_section_header(Strip(header_line))
        /\ Strip(header_line) \in {BodyUpperIntroduction, PrefixNumber \o BodyIntroduction}
              => header_result[1]
        /\ Strip(header_line) = BodyCat => ~header_result[1]
        /\ Len(Strip(header_line)) < 3 \/ Len(Strip(header_line)) > 200
              => ~header_result[1]

\* A line of 201 characters with a section keyword was classified, as no header.
C12_Witness ==
    /\ header_result = <<FALSE>>
    /\ Len(header_line) = 201
    /\ StatedKeyword(header_line)

(***************************************************************************)
(* The segmenter                                                           *)
(***************************************************************************)

\* The file of the call and the sections process_documents returned for it.
SegmentedPages == doc_pdfs[1].pages

SegmentedSections == doc_documents[1][2].sections

\* The non-empty lines of a page text, trimmed, in reading order.
TrimmedLines(text) ==
    SelectSeq([k \in 1..Len(SplitLines(text)) |-> Strip(SplitLines(text)[k])],
              LAMBDA trimmed : trimmed # <<>>)

\* The positions of the header lines among the trimmed lines.
HeaderPositions(trimmed) == {h \in 1..Len(trimmed) : StatedHeader(trimmed[h])}

\* The lines after the header at h, up to the next header or the end of the page.
LinesUnder(trimmed, h) ==
    SubSeq(trimmed, h + 1,
           IF \E j \in HeaderPositions(trimmed) : j > h
           THEN (CHOOSE j \in HeaderPositions(trimmed) :
                    j > h /\ \A k \in HeaderPositions(trimmed) : k > h => j <= k) - 1
           ELSE Len(trimmed))

\* The section stated for the header at h.
StatedSection(trimmed, h, page_num) ==
    [title |-> trimmed[h],
     content |-> Join(<<"\n">>, LinesUnder(trimmed, h)),
     page_number |-> page_num,
     word_count |-> Len(Split(Join(<<"\n">>, LinesUnder(trimmed, h)))),
     char_count |-> Len(Join(<<"\n">>, LinesUnder(trimmed, h)))]

\* One section per header that has lines under it, in reading order.
StatedSections(text, page_num) ==
    LET trimmed == TrimmedLines(text)
        emitting == Ascending({h \in HeaderPositions(trimmed) :
                                  LinesUnder(trimmed, h) # <<>>}, 1, Len(trimmed))
    IN  [k \in 1..Len(emitting) |-> StatedSection(trimmed, emitting[k], page_num)]

RECURSIVE StatedDocumentSections(_, _)
\* The stated sections of the pages from page_num on, page after page.
StatedDocumentSections(pages, page_num) ==
    IF page_num > Len(pages) THEN <<>>
    ELSE StatedSections(pages[page_num].text, page_num)
         \o StatedDocumentSections(pages, page_num + 1)

\* C11: every section the segmenter emits has non-empty content with at least
\* one non-empty line, and its title is a trimmed line of its page that the
\* header test classifies as a header.
C11_SectionsHaveContentAndHeaderTitle ==
    doc_pc = "done" =>
        \A i \in 1..Len(SegmentedSections) :
            LET section == SegmentedSections[i]
                page_lines == SplitLines(SegmentedPages[section.page_number].text)
            IN  /\ section.content # <<>>
                /\ \E k \in 1..Len(SplitLines(section.content)) :
                       Strip(SplitLines(section.content)[k]) # <<>>
                /\ \E k \in 1..Len(page_lines) : section.title = Strip(page_lines[k])
                /\ StatedHeader(section.title)

\* A page with a header that has no line under it and a padded header that
\* has one was segmented into one section.
C11_Witness ==
    /\ doc_pc = "done"
    /\ Len(SegmentedPages) = 1
    /\ SegmentedPages[1].text
          = Join(<<"\n">>, <<LineHeaderUpper, LineHeaderNumbered, LineCat>>)
    /\ Len(SegmentedSections) = 1
    /\ SegmentedSections[1].title = Strip(LineHeaderNumbered)

\* C19: the sections of a page are, in reading order, one per header that has
\* a non-header non-empty line under it before the next header or the end of
\* the page; the content is the newline-join of those trimmed lines; lines
\* before the first header of a page are in no section, whatever the previous
\* page ended with; word_count counts the whitespace-separated tokens of the
\* content and char_count its characters.
C19_SegmenterOutput ==
    doc_pc = "done" => SegmentedSections = StatedDocumentSections(SegmentedPages, 1)

\* A second page that starts with a non-header line, after a page that ended
\* inside a section, was segmented.
C19_Witness ==
    /\ doc_pc = "done"
    /\ Len(SegmentedPages) = 2
    /\ SegmentedPages[1].text = PageOverview
    /\ SegmentedPages[2].text
          = Join(<<"\n">>, <<LineCat, LineHeaderUpper, LinePadded>>)
    /\ Len(SegmentedSections) = 2
    /\ SegmentedSections[2].content = Strip(LinePadded)

(***************************************************************************)
(* Files that fail to extract                                              *)
(***************************************************************************)

\* The collaborator opens the file and extracts every page of it.
ExtractionSucceeds(pdf) ==
    pdf.opens /\ \A p \in 1..Len(pdf.pages) : ~pdf.pages[p].raises

\* The list of files without those whose extraction fails.
WithoutFailing(pdfs) == SelectSeq(pdfs, ExtractionSucceeds)

\* C17: process_documents returns exactly the files whose extraction
\* succeeded, each with all its pages and the sections of those pages; a
\* failing file leaves nothing in the result, the files after it are
\* processed, and the result is the one for the list without the failing files.
C17_FailingFilesDropped ==
    doc_pc = "done" =>
        /\ {doc_documents[i][1] : i \in 1..Len(doc_documents)}
              = {doc_pdfs[k].name : k \in {j \in 1..Len(doc_pdfs) :
                                             ExtractionSucceeds(doc_pdfs[j])}}
        /\ \A i \in 1..Len(doc_documents) :
              \E k \in 1..Len(doc_pdfs) :
                  /\ ExtractionSucceeds(doc_pdfs[k])
                  /\ doc_documents[i][1] = doc_pdfs[k].name
                  /\ doc_documents[i][2].file_name = doc_pdfs[k].name
                  /\ doc_documents[i][2].total_pages = Len(doc_pdfs[k].pages)
                  /\ doc_documents[i][2].sections
                        = StatedDocumentSections(doc_pdfs[k].pages, 1)
        /\ doc_documents = process_documents(WithoutFailing(doc_pdfs))

\* A file that cannot be opened, one whose second page fails and a readable
\* one were processed in this order: only the last is in the result.
C17_Witness ==
    /\ doc_pc = "done"
    /\ doc_pdfs = <<PdfUnreadable, PdfBrokenPage, PdfMethods>>
    /\ Len(doc_documents) = 1
    /\ doc_documents[1][1] = PdfMethods.name

(***************************************************************************)
(* The requirement model of step 2                                         *)
(***************************************************************************)

\* What step 2 built.
BuiltFocusKeywords == Range(req_built[1].persona_analysis.focus_keywords)

BuiltPriorityKeywords == req_built[1].job_analysis.priority_keywords

BuiltKeyConcepts == Range(req_built[1].job_analysis.key_concepts)

BuiltWeights == req_built[1].requirements.weighted_keywords

\* C13: weighted_keywords holds the persona focus keywords, the job priority
\* keywords and the job key concepts; a key concept weighs 1.5 whatever else
\* it is, a priority keyword that is no key concept 2.0 even when it is a
\* persona keyword too, and a keyword of the persona only 1.0 (weights in
\* tenths).
C13_LastWriteWins ==
    req_built # <<>> =>
        /\ DOMAIN BuiltWeights
              = BuiltFocusKeywords \cup BuiltPriorityKeywords \cup BuiltKeyConcepts
        /\ \A keyword \in DOMAIN BuiltWeights :
              BuiltWeights[keyword] =
                  IF keyword \in BuiltKeyConcepts THEN 15
                  ELSE IF keyword \in BuiltPriorityKeywords THEN 20
                  ELSE 10

\* "methodology" came from the persona, the job's priority keywords and its
\* key concepts, "literature" from the first two, "research" from the persona.
C13_Witness ==
    /\ req_built # <<>>
    /\ <<"m","e","t","h","o","d","o","l","o","g","y">> \in BuiltFocusKeywords \cap BuiltPriorityKeywords \cap BuiltKeyConcepts
    /\ <<"l","i","t","e","r","a","t","u","r","e">> \in (BuiltFocusKeywords \cap BuiltPriorityKeywords) \ BuiltKeyConcepts
    /\ <<"r","e","s","e","a","r","c","h">> \in BuiltFocusKeywords \ (BuiltPriorityKeywords \cup BuiltKeyConcepts)
    /\ BuiltWeights[<<"m","e","t","h","o","d","o","l","o","g","y">>] = 15
    /\ BuiltWeights[<<"l","i","t","e","r","a","t","u","r","e">>] = 20
    /\ BuiltWeights[<<"r","e","s","e","a","r","c","h">>] = 10

\* The tokens of the lower-cased job text that are longer than 3 characters
\* and no stop word.
StatedFallbackTokens(job_text) ==
    {token \in Range(Split(Lower(job_text))) :
        Len(token) > 3 /\ token \notin EnglishStopWords}

\* C14: when the tokenizer and tagger libraries could not be loaded, the job
\* priority keywords are the tokens of the lower-cased job text longer than 3
\* characters that are no stop words, at most 15 of them, so they are not
\* empty when the text has such a token, and each weighs 2.0 unless it is a
\* key concept.
C14_FallbackWithoutLibraries ==
    (req_built # <<>> /\ ~ImportsOk(req_args.env)) =>
        /\ BuiltPriorityKeywords \subseteq StatedFallbackTokens(req_args.job)
        /\ Cardinality(BuiltPriorityKeywords)
              = IF Cardinality(StatedFallbackTokens(req_args.job)) < 15
                THEN Cardinality(StatedFallbackTokens(req_args.job))
                ELSE 15
        /\ \A keyword \in BuiltPriorityKeywords \ BuiltKeyConcepts :
              BuiltWeights[keyword] = 20

(***************************************************************************)
(* Segmented sections under the paragraph split                            *)
(***************************************************************************)

\* An empty line, or a line of nothing but blanks and tabs, inside the text.
HasBlankLine(text) ==
    \E i, j \in 1..Len(text) :
        /\ i < j
        /\ text[i] = "\n"
        /\ text[j] = "\n"
        /\ \A k \in (i + 1)..(j - 1) : text[k] \in {" ", "\t"}

\* What _extract_subsections gives for a segmented section.
ExtractedFrom(section, tokenizer) ==
    _extract_subsections(section.content, "pages.pdf", section.title,
                         section.page_number,
                         CHOOSE r \in Requirements(PersonaAcademic, JobRevenue, EnvBare) : TRUE,
                         tokenizer)

\* The candidates of the sentence grouping for a segmented section.
GroupedFrom(section, tokenizer) ==
    SentenceGroupCandidates(section.content, "pages.pdf", section.title,
                            section.page_number, tokenizer)

\* The words of all the sentences the tokenizer returns for the content.
SentenceWordsOf(section, tokenizer) ==
    WordCount(Join(<<" ">>, Sentences(section.content, tokenizer)))

\* The paragraph split gave at most the whole content, the candidates of the
\* sentence grouping follow it, and there is such a candidate when the
\* sentences hold the 30 words a group needs.
SingleParagraphThenGroups(section, extracted, grouped, tokenizer) ==
    LET whole == SelectSeq(extracted, LAMBDA c : c.subsection_type = "paragraph")
        groups == SelectSeq(extracted, LAMBDA c : c.subsection_type = "sentence_group")
    IN  /\ Len(whole) = (IF WordCount(section.content) >= 20 THEN 1 ELSE 0)
        /\ \A k \in 1..Len(whole) : whole[k].content = section.content
        /\ groups = grouped
        /\ SentenceWordsOf(section, tokenizer) >= 30 => groups # <<>>
        /\ \A k \in 1..Len(groups) :
              groups[k].extraction_method = "sentence_grouping"
        /\ SubSeq(extracted, 1, Len(whole) + Len(grouped)) = whole \o grouped

\* C23: no content of a segmented section has a blank line, so the paragraph
\* split gives at most one candidate, the whole content when it has at least
\* 20 words, and the sentence grouping runs for every such section.
C23_NoBlankLineSoGroupingRuns ==
    doc_pc = "done" =>
        \A s \in 1..Len(SegmentedSections) :
            /\ SegmentedSections[s].content # <<>>
            /\ ~HasBlankLine(SegmentedSections[s].content)
            /\ \A tokenizer \in {"punkt", "regex"} :
                  \E extracted \in {ExtractedFrom(SegmentedSections[s], tokenizer)},
                     grouped \in {GroupedFrom(SegmentedSections[s], tokenizer)} :
                      SingleParagraphThenGroups(SegmentedSections[s], extracted,
                                                grouped, tokenizer)

\* A page of two lines of 100 words was segmented into one section of 200 words
\* in one paragraph, from which the paragraph split gives one candidate and the
\* sentence grouping two groups after it, under either tokenizer.
C23_Witness ==
    /\ doc_pc = "done"
    /\ SegmentedPages[1].text = PageTwoHundredWords
    /\ Len(SegmentedSections) = 1
    /\ SegmentedSections[1].word_count = 200
    /\ ~HasBlankLine(SegmentedSections[1].content)
    /\ \A tokenizer \in {"punkt", "regex"} :
          \E extracted \in {ExtractedFrom(SegmentedSections[1], tokenizer)} :
              /\ Len(extracted) = 3
              /\ extracted[1].extraction_method = "paragraph_split"
              /\ extracted[2].extraction_method = "sentence_grouping"
              /\ extracted[3].extraction_method = "sentence_grouping"
              /\ extracted[2].word_count = 100

(***************************************************************************)
(* _group_sentences                                                        *)
(***************************************************************************)

\* The groups _group_sentences emits for the sentences of the observed section.
ObservedGroups == _group_sentences(ObservedSentences, 30, 150)

\* C24: every group _group_sentences emits with min_words = 30 and
\* max_words = 150 has between 30 and 150 words, however long the sentences
\* are.
C24_GroupsWithinWordLimits ==
    sub_pc = "extracted" =>
        \E groups \in {ObservedGroups} :
            \A g \in 1..Len(groups) :
                30 <= WordCount(groups[g]) /\ WordCount(groups[g]) <= 150

(***************************************************************************)
(* The requirement model of two runs on the same texts                     *)
(***************************************************************************)

\* The requirement models a second run on the observed texts, with the same
\* libraries, may build.
SecondRunRequirements ==
    {combine_requirements(analyze_persona(req_args.persona, req_args.env), again) :
        again \in analyze_job(req_args.job, req_args.env)}

\* C25: a second run of analyze_persona, analyze_job and combine_requirements
\* on the same persona and job texts with the same libraries gives the same
\* set all_keywords and the same weighted_keywords as the first, also for a
\* job text with more than 15 unique candidate priority tokens.
C25_RequirementModelDeterministic ==
    req_built # <<>> =>
        \A second \in SecondRunRequirements :
            /\ second.all_keywords = req_built[1].requirements.all_keywords
            /\ second.weighted_keywords = req_built[1].requirements.weighted_keywords
====
